---- MODULE Spec2Model ----
(***************************************************************************)
(* A model of the discovery-and-classification pipeline of                 *)
(* src/steamService.ts: the relay client (fetchWithProxy), the origin      *)
(* classifier (verifyDomesticGame), the search page scanner                *)
(* (fetchSearchPage) and the scan orchestrator (scanForHighTrafficGames).  *)
(*                                                                         *)
(* Text is modelled as a sequence of code points, so that includes,        *)
(* endsWith, toLowerCase and the regular expressions of the source are     *)
(* computed and not assumed.  An error message is a sequence of message    *)
(* parts (strings).                                                        *)
(***************************************************************************)
EXTENDS Integers, Sequences, FiniteSets, Bags, TLC

VARIABLES
  rpc,        \* fetchWithProxy: position of the call
  errors,     \* fetchWithProxy: const errors: string[]
  attempts,   \* fetchWithProxy: the relays a fetch() was issued to, in order
  seen,       \* fetchWithProxy: the response each settled fetch() delivered
  rresult,    \* fetchWithProxy: the value the call resolved to
  rthrown,    \* fetchWithProxy: the message of the Error the call rejected with
  vpc,        \* verifyDomesticGame: position of the call
  vgame,      \* verifyDomesticGame: the parameter game
  vresponse,  \* verifyDomesticGame: what await fetchWithProxy(url) ends with
  vresult,    \* verifyDomesticGame: what the call ended with
  vfirst,     \* verifyDomesticGame: what the call before the repeated one ended with
  ppc,        \* fetchSearchPage: position of the call
  presponse,  \* fetchSearchPage: what await fetchWithProxy(searchUrl) ends with
  presult,    \* fetchSearchPage: what the call ended with
  spc,        \* scanForHighTrafficGames: position of the call
  page,       \* scanForHighTrafficGames: let page of phase 1
  idx,        \* scanForHighTrafficGames: let i of phase 2
  candidates, \* scanForHighTrafficGames: const candidates: SteamGame[]
  validGames, \* scanForHighTrafficGames: const validGames: SteamGame[]
  inflight,   \* the calls of the current group or chunk that have not settled
  results,    \* what the settled calls of the current group or chunk gave
  sresult,    \* scanForHighTrafficGames: the list the call resolved to
  sthrown,    \* scanForHighTrafficGames: the error the call rejected with
  raised,     \* the error the try statement caught, and validGames then
  fpc,        \* fetchReviews: position of the call
  flimit,     \* fetchReviews: the parameter limit
  fi,         \* fetchReviews: let i of the loop
  fcursor,    \* fetchReviews: let cursor
  freviews,   \* fetchReviews: let reviews
  fsent,      \* fetchReviews: the cursor of each fetchWithProxy call, in order
  fdata,      \* fetchReviews: what each fetchWithProxy call ended with
  fresult,    \* fetchReviews: what the call ended with
  query,           \* ClientApp: the state query
  scannedGames,    \* ClientApp: the state scannedGames
  searchResults,   \* ClientApp: the state searchResults
  selectedGame,    \* ClientApp: the state selectedGame (NoGame: null)
  reviews,         \* ClientApp: the state reviews
  filteredReviews, \* ClientApp: the state filteredReviews
  filters,         \* ClientApp: the state filters
  status,          \* ClientApp: the state status
  progressMsg,     \* ClientApp: the state progressMsg
  error,           \* ClientApp: the state error
  report,          \* ClientApp: the state report
  pending          \* ClientApp: the calls its handlers await, a bag

relayVars == <<rpc, errors, attempts, seen, rresult, rthrown>>

verifyVars == <<vpc, vgame, vresponse, vresult, vfirst>>

pageVars == <<ppc, presponse, presult>>

scanVars == <<spc, page, idx, candidates, validGames, inflight, results,
              sresult, sthrown, raised>>

reviewVars == <<fpc, flimit, fi, fcursor, freviews, fsent, fdata, fresult>>

uiVars == <<query, scannedGames, searchResults, selectedGame, reviews,
            filteredReviews, filters, status, progressMsg, error, report,
            pending>>

vars == <<rpc, errors, attempts, seen, rresult, rthrown,
          vpc, vgame, vresponse, vresult, vfirst, ppc, presponse, presult,
          spc, page, idx, candidates, validGames, inflight, results,
          sresult, sthrown, raised,
          fpc, flimit, fi, fcursor, freviews, fsent, fdata, fresult,
          query, scannedGames, searchResults, selectedGame, reviews,
          filteredReviews, filters, status, progressMsg, error, report,
          pending>>

\* The number of leading search pages that list products.
LivePages == 4

\* The longest row list of a search page of the model.
MaxRows == 2

\* The most calls the handlers of ClientApp await at a time.
MaxPending == 2

----------------------------------------------------------------------------
(* Generic helpers on sequences.                                           *)

\* s.includes(sub) of JavaScript, on sequences (of code points or of parts).
Includes(s, sub) ==
  \E i \in 0..(Len(s) - Len(sub)) : SubSeq(s, i + 1, i + Len(sub)) = sub

\* s.endsWith(suf)
EndsWith(s, suf) ==
  /\ Len(suf) <= Len(s)
  /\ SubSeq(s, Len(s) - Len(suf) + 1, Len(s)) = suf

----------------------------------------------------------------------------
(* fetchWithProxy: the relay client.                                       *)

\* The three strategies, in the order of the source.
RelayNames == <<"AllOrigins", "CorsProxy", "CodeTabs">>

\* A JSON value as far as fetchWithProxy looks into it: null, or an object
\* named id with data.status.http_code (0: no status) and data.contents.
\* contents: [present, valid, raw, denotes]: the text raw, which JSON.parse
\* accepts when valid and then yields the value named denotes.
NoContents == [present |-> FALSE, valid |-> FALSE, raw |-> "", denotes |-> ""]

JsonNull == [k |-> "null", id |-> "null", http_code |-> 0, contents |-> NoContents]

JsonObj(id, code, contents) ==
  [k |-> "obj", id |-> id, http_code |-> code, contents |-> contents]

\* The text of an HTTP response body: response.json() accepts it when valid.
NoBody == [valid |-> FALSE, denotes |-> JsonNull]

\* data.contents of an AllOrigins envelope: absent, a JSON text, the JSON
\* text "null", or a text that is no JSON (an HTML fragment).
ContentsPool ==
  { NoContents,
    [present |-> TRUE, valid |-> TRUE,  raw |-> "T1", denotes |-> "C1"],
    [present |-> TRUE, valid |-> TRUE,  raw |-> "null", denotes |-> "null"],
    [present |-> TRUE, valid |-> FALSE, raw |-> "H1", denotes |-> ""] }

\* data.status.http_code of an envelope (0: the envelope has no status).
HttpCodes == {0, 200, 204, 404, 500}

\* What a fetch() to relay n may deliver: a rejection (transport error), a
\* response that is not ok, or an ok response with a body.
Responses(n) ==
  { [rejects |-> TRUE, ok |-> FALSE, status |-> 0, body |-> NoBody],
    [rejects |-> FALSE, ok |-> FALSE, status |-> 500, body |-> NoBody],
    [rejects |-> FALSE, ok |-> TRUE, status |-> 200, body |-> NoBody],
    [rejects |-> FALSE, ok |-> TRUE, status |-> 200,
     body |-> [valid |-> TRUE, denotes |-> JsonNull]] }
  \cup
  IF n = 1
  THEN { [rejects |-> FALSE, ok |-> TRUE, status |-> 200,
          body |-> [valid |-> TRUE, denotes |-> JsonObj("env", c, t)]] :
            c \in HttpCodes, t \in ContentsPool }
  ELSE { [rejects |-> FALSE, ok |-> TRUE, status |-> 200,
          body |-> [valid |-> TRUE,
                    denotes |-> JsonObj(IF n = 2 THEN "B2" ELSE "B3", 0, NoContents)]] }

\* The outcome of a try block: a returned value or a thrown error message.
Returned(type, v) == [threw |-> FALSE, type |-> type, v |-> v, message |-> <<>>]
Threw(message) == [threw |-> TRUE, type |-> "none", v |-> "", message |-> message]
NoResult == [threw |-> FALSE, type |-> "none", v |-> "", message |-> <<>>]

\* JSON.parse(data.contents), and the catch that returns the raw string.
UnwrapContents(contents) ==
  IF contents.valid THEN Returned("parsed", contents.denotes)
  ELSE Returned("text", contents.raw)

\* The try block of strategy 1 once fetch() has settled with r.
TryAllOrigins(r) ==
  IF r.rejects THEN Threw(<<"Failed to fetch">>)
  ELSE IF ~r.ok THEN Threw(<<"Status ", ToString(r.status)>>)
  ELSE IF ~r.body.valid THEN Threw(<<"Unexpected token">>)
  ELSE LET data == r.body.denotes IN
    IF data.k = "null" THEN Threw(<<"Cannot read properties of null">>)
    ELSE IF data.http_code # 0 /\ data.http_code # 200 /\ data.http_code # 404
      THEN Threw(<<"Upstream error: ", ToString(data.http_code)>>)
    ELSE IF ~data.contents.present THEN Threw(<<"Empty response content">>)
    ELSE UnwrapContents(data.contents)

\* The try block of strategies 2 and 3 once fetch() has settled with r.
TryDirect(r) ==
  IF r.rejects THEN Threw(<<"Failed to fetch">>)
  ELSE IF ~r.ok THEN Threw(<<"Status ", ToString(r.status)>>)
  ELSE IF ~r.body.valid THEN Threw(<<"Unexpected token">>)
  ELSE Returned("parsed", r.body.denotes.id)

TryStrategy(n, r) == IF n = 1 THEN TryAllOrigins(r) ELSE TryDirect(r)

\* errors.push(`${relay}: ${error.message}`)
Recorded(n, message) == <<RelayNames[n], ": ">> \o message

\* A thrown message that concatenates the recorded reasons.
ExhaustedMessageWithReasons(errs) ==
  <<"NETWORK_FAILED_ALL_PROXIES_UNRESPONSIVE">> \o errs[1] \o errs[2] \o errs[3]

\* new Error("...") thrown once every strategy has failed: a fixed text (the
\* source's is Chinese: network connection failed, no relay responded);
\* errs only goes to console.error.
ExhaustedMessage(errs) == <<"NETWORK_FAILED_ALL_PROXIES_UNRESPONSIVE">>

\* The call: errors = [], the cache buster is appended, fetch() 1 is issued.
Call ==
  /\ rpc = "start"
  /\ rpc' = "s1"
  /\ errors' = <<>>
  /\ attempts' = <<RelayNames[1]>>
  /\ UNCHANGED <<seen, rresult, rthrown>>
  /\ UNCHANGED <<verifyVars, pageVars, scanVars, reviewVars, uiVars>>

\* Strategy 2 left out after strategy 1 has failed.
AfterFailureSkipping(n) == IF n = 3 THEN "thrown" ELSE "s3"

\* The position after strategy n has failed.
AfterFailure(n) == IF n = 3 THEN "thrown" ELSE IF n = 1 THEN "s2" ELSE "s3"

\* fetch() n settles with r; the rest of try block n and its catch run, and
\* then either the call returns, or fetch() n+1 is issued, or the call throws.
Strategy(n) ==
  /\ rpc = (IF n = 1 THEN "s1" ELSE IF n = 2 THEN "s2" ELSE "s3")
  /\ \E r \in Responses(n) :
       LET out == TryStrategy(n, r) IN
       /\ seen' = Append(seen, r)
       /\ IF out.threw
          THEN /\ errors' = Append(errors, Recorded(n, out.message))
               /\ rpc' = AfterFailure(n)
               /\ attempts' = IF n < 3 THEN Append(attempts, RelayNames[n + 1])
                              ELSE attempts
               /\ rthrown' = IF n = 3 THEN ExhaustedMessage(errors') ELSE rthrown
               /\ UNCHANGED rresult
          ELSE /\ rresult' = out
               /\ rpc' = "returned"
               /\ UNCHANGED <<errors, attempts, rthrown>>
  /\ UNCHANGED <<verifyVars, pageVars, scanVars, reviewVars, uiVars>>

Strategy1 == Strategy(1)
Strategy2 == Strategy(2)
Strategy3 == Strategy(3)

\* No call of fetchWithProxy is followed step by step.
RelayIdle ==
  /\ rpc = "idle"
  /\ errors = <<>>
  /\ attempts = <<>>
  /\ seen = <<>>
  /\ rresult = NoResult
  /\ rthrown = <<>>

----------------------------------------------------------------------------
(* Text: a string is the sequence of its code points.                      *)

\* The string literals of the source, as code points.
T_dot_cn == <<46, 99, 110>>  \* ".cn"
T_qq_com == <<113, 113, 46, 99, 111, 109>>  \* "qq.com"
T_163_com == <<49, 54, 51, 46, 99, 111, 109>>  \* "163.com"
T_aliyun == <<97, 108, 105, 121, 117, 110>>  \* "aliyun"
T_netease == <<110, 101, 116, 101, 97, 115, 101>>  \* "netease"
T_weibo == <<119, 101, 105, 98, 111>>  \* "weibo"
T_bilibili == <<98, 105, 108, 105, 98, 105, 108, 105>>  \* "bilibili"
T_simplified_chinese == <<115, 105, 109, 112, 108, 105, 102, 105, 101, 100, 32, 99, 104, 105, 110, 101, 115, 101>>  \* "simplified chinese"
T_full_audio == <<60, 115, 116, 114, 111, 110, 103, 62, 102, 117, 108, 108, 32, 97, 117, 100, 105, 111, 60, 47, 115, 116, 114, 111, 110, 103, 62>>  \* "<strong>full audio</strong>"
T_jianti_zhongwen == <<31616, 20307, 20013, 25991>>  \* "\u7b80\u4f53\u4e2d\u6587"
T_wanquan_yinpin == <<60, 115, 116, 114, 111, 110, 103, 62, 23436, 20840, 38899, 39057, 60, 47, 115, 116, 114, 111, 110, 103, 62>>  \* "<strong>\u5b8c\u5168\u97f3\u9891</strong>"
T_hanyu == <<27721, 35821>>  \* "\u6c49\u8bed"
T_english == <<101, 110, 103, 108, 105, 115, 104>>  \* "english"
T_comma_space == <<44, 32>>  \* ", "

\* Whether pattern p occurs in s at position i.
At(s, i, p) ==
  /\ i >= 1
  /\ i + Len(p) - 1 <= Len(s)
  /\ SubSeq(s, i, i + Len(p) - 1) = p

\* c.toLowerCase() of one code point: A-Z go to a-z, the code points of the
\* texts used here have no other lower case form.
LowerChar(c) == IF c >= 65 /\ c <= 90 THEN c + 32 ELSE c

\* str.toLowerCase()
ToLowerCase(s) == [i \in 1..Len(s) |-> LowerChar(s[i])]

\* The line terminators, which "." of a regular expression does not match.
LineTerminators == {10, 13, 8232, 8233}

\* /a.*?b/i.test(s), for lower case patterns a and b.
TestThenI(s, a, b) ==
  LET t == ToLowerCase(s) IN
  \E i \in 1..Len(t) :
    /\ At(t, i, a)
    /\ \E j \in (i + Len(a))..Len(t) :
         /\ At(t, j, b)
         /\ \A m \in (i + Len(a))..(j - 1) : t[m] \notin LineTerminators

\* parts.join(', ')
RECURSIVE JoinComma(_)
JoinComma(parts) ==
  IF parts = <<>> THEN <<>>
  ELSE IF Len(parts) = 1 THEN parts[1]
  ELSE parts[1] \o T_comma_space \o JoinComma(Tail(parts))

----------------------------------------------------------------------------
(* verifyDomesticGame: the origin classifier.                              *)

\* const KNOWN_CN_ENTITIES, as code points
KNOWN_CN_ENTITIES ==
  <<
    <<98, 105, 108, 105, 98, 105, 108, 105>>,  \* bilibili
    <<103, 97, 109, 101, 114, 97>>,  \* gamera
    <<108, 105, 103, 104, 116, 110, 105, 110, 103, 32, 103, 97, 109, 101, 115>>,  \* lightning games
    <<121, 111, 111, 114, 101, 107, 97>>,  \* yooreka
    <<116, 104, 101, 114, 109, 105, 116, 101>>,  \* thermite
    <<114, 97, 121, 116, 104, 101, 111, 110>>,  \* raytheon
    <<99, 104, 105, 108, 108, 121, 114, 111, 111, 109>>,  \* chillyroom
    <<99, 111, 99, 111, 110, 117, 116, 32, 105, 115, 108, 97, 110, 100>>,  \* coconut island
    <<109, 97, 114, 116, 105, 97, 110>>,  \* martian
    <<103, 105, 97, 110, 116>>,  \* giant
    <<109, 105, 104, 111, 121, 111>>,  \* mihoyo
    <<110, 101, 116, 101, 97, 115, 101>>,  \* netease
    <<116, 101, 110, 99, 101, 110, 116>>,  \* tencent
    <<103, 97, 109, 101, 32, 115, 99, 105, 101, 110, 99, 101>>,  \* game science
    <<112, 108, 97, 121, 105, 115, 109>>,  \* playism
    <<105, 110, 100, 105, 101, 97, 114, 107>>,  \* indieark
    <<115, 97, 112, 108, 105, 110, 103>>,  \* sapling
    <<101, 97, 115, 116, 50, 119, 101, 115, 116>>,  \* east2west
    <<108, 101, 105, 116, 105, 110, 103>>,  \* leiting
    <<121, 111, 117, 116, 104>>,  \* youth
    <<112, 101, 114, 102, 101, 99, 116, 32, 119, 111, 114, 108, 100>>,  \* perfect world
    <<119, 97, 110, 109, 101, 105>>,  \* wanmei
    <<120, 46, 100, 46, 32, 110, 101, 116, 119, 111, 114, 107>>,  \* x.d. network
    <<120, 100>>,  \* xd
    <<104, 121, 112, 101, 114, 103, 114, 121, 112, 104>>,  \* hypergryph
    <<109, 97, 110, 106, 117, 117>>,  \* manjuu
    <<121, 111, 110, 103, 115, 104, 105>>,  \* yongshi
    <<115, 117, 110, 98, 111, 114, 110>>,  \* sunborn
    <<112, 97, 112, 101, 114, 103, 97, 109, 101, 115>>,  \* papergames
    <<107, 117, 114, 111>>,  \* kuro
    <<104, 101, 114, 111, 32, 101, 110, 116, 101, 114, 116, 97, 105, 110, 109, 101, 110, 116>>,  \* hero entertainment
    <<111, 97, 115, 105, 115>>,  \* oasis
    <<112, 105, 120, 109, 97, 105, 110>>,  \* pixmain
    <<50, 52, 32, 101, 110, 116, 101, 114, 116, 97, 105, 110, 109, 101, 110, 116>>,  \* 24 entertainment
    <<112, 97, 116, 104, 101, 97>>,  \* pathea
    <<114, 101, 99, 114, 101, 97, 116, 101>>,  \* recreate
    <<112, 105, 120, 112, 105, 108>>,  \* pixpil
    <<108, 101, 101, 110, 122, 101, 101>>,  \* leenzee
    <<101, 118, 101, 114, 115, 116, 111, 110, 101>>,  \* everstone
    <<106, 111, 121, 111, 110, 101>>,  \* joyone
    <<121, 105, 120, 105, 97, 110>>,  \* yixian
    <<97, 115, 116, 114, 111, 108, 97, 98, 101>>,  \* astrolabe
    <<50, 112, 32, 103, 97, 109, 101, 115>>,  \* 2p games
    <<105, 115, 108, 97, 110, 100>>,  \* island
    <<100, 117, 111, 121, 105>>,  \* duoyi
    <<115, 101, 97, 115, 117, 110>>,  \* seasun
    <<107, 105, 110, 103, 115, 111, 102, 116>>,  \* kingsoft
    <<99, 101, 110, 116, 117, 114, 121>>,  \* century
    <<115, 110, 97, 105, 108>>,  \* snail
    <<108, 111, 111, 110, 103>>,  \* loong
    <<122, 108, 111, 110, 103>>,  \* zlong
    <<53, 48, 53, 32, 103, 97, 109, 101, 115>>,  \* 505 games
    <<109, 105, 99, 114, 111, 105, 100, 115>>,  \* microids
    <<99, 101, 45, 97, 115, 105, 97>>,  \* ce-asia
    <<104, 107>>,  \* hk
    <<116, 97, 105, 119, 97, 110>>,  \* taiwan
    <<98, 101, 105, 106, 105, 110, 103>>,  \* beijing
    <<115, 104, 97, 110, 103, 104, 97, 105>>,  \* shanghai
    <<115, 104, 101, 110, 122, 104, 101, 110>>,  \* shenzhen
    <<116, 97, 110, 120, 117, 110>>,  \* tanxun
    <<50, 80>>,  \* 2P
    <<122, 107>>,  \* zk
    <<122, 104>>,  \* zh
    <<99, 110>>,  \* cn
    <<99, 104, 105, 110, 97>>,  \* china
    <<98, 101, 105, 106, 105, 110, 103>>,  \* beijing
    <<99, 104, 101, 110, 103, 100, 117>>,  \* chengdu
    <<104, 97, 110, 103, 122, 104, 111, 117>>,  \* hangzhou
    <<103, 117, 97, 110, 103, 122, 104, 111, 117>>  \* guangzhou
  >>

\* const CULTURAL_KEYWORDS, as code points
CULTURAL_KEYWORDS ==
  <<
    <<119, 117, 120, 105, 97>>,  \* wuxia
    <<120, 105, 97, 110, 120, 105, 97>>,  \* xianxia
    <<106, 105, 97, 110, 103, 104, 117>>,  \* jianghu
    <<116, 104, 114, 101, 101, 32, 107, 105, 110, 103, 100, 111, 109, 115>>,  \* three kingdoms
    <<100, 121, 110, 97, 115, 116, 121>>,  \* dynasty
    <<99, 117, 108, 116, 105, 118, 97, 116, 105, 111, 110>>,  \* cultivation
    <<109, 121, 116, 104>>,  \* myth
    <<119, 117, 107, 111, 110, 103>>,  \* wukong
    <<119, 117, 99, 104, 97, 110, 103>>,  \* wuchang
    <<103, 117, 122, 104, 101, 110, 103>>,  \* guzheng
    <<116, 97, 111, 105, 115, 116>>,  \* taoist
    <<105, 109, 109, 111, 114, 116, 97, 108>>,  \* immortal
    <<106, 97, 100, 101>>,  \* jade
    <<115, 104, 97, 110, 104, 97, 105>>,  \* shanhai
    <<121, 97, 110, 121, 117, 110>>,  \* yanyun
    <<115, 105, 120, 116, 101, 101, 110, 32, 116, 111, 110, 101, 115>>,  \* sixteen tones
    <<115, 119, 111, 114, 100, 115, 109, 97, 110>>,  \* swordsman
    <<101, 109, 112, 101, 114, 111, 114>>,  \* emperor
    <<115, 104, 97, 111, 108, 105, 110>>,  \* shaolin
    <<114, 101, 99, 111, 114, 100, 115, 32, 111, 102>>,  \* records of
    <<108, 101, 103, 101, 110, 100, 32, 111, 102>>,  \* legend of
    <<115, 119, 111, 114, 100, 32, 97, 110, 100, 32, 102, 97, 105, 114, 121>>,  \* sword and fairy
    <<103, 117, 106, 105, 97, 110>>,  \* gujian
    <<115, 104, 101, 110, 103, 115, 104, 105>>,  \* shengshi
    <<116, 105, 97, 110, 120, 105, 97>>,  \* tianxia
    <<109, 97, 116, 99, 104, 108, 101, 115, 115>>,  \* matchless
    <<107, 117, 110, 103, 32, 102, 117>>,  \* kung fu
    <<101, 97, 115, 116, 101, 114, 110>>,  \* eastern
    <<111, 114, 105, 101, 110, 116, 97, 108>>,  \* oriental
    <<108, 111, 111, 110, 103>>,  \* loong
    <<100, 114, 97, 103, 111, 110>>,  \* dragon
    <<109, 105, 110, 103>>,  \* ming
    <<115, 111, 110, 103>>,  \* song
    <<116, 97, 110, 103>>,  \* tang
    <<104, 97, 110>>  \* han
  >>

\* const VIP_WHITELIST, as code points
VIP_WHITELIST ==
  <<
    <<119, 117, 99, 104, 97, 110, 103>>,  \* wuchang
    <<102, 97, 108, 108, 101, 110, 32, 102, 101, 97, 116, 104, 101, 114, 115>>,  \* fallen feathers
    <<119, 104, 101, 114, 101, 32, 119, 105, 110, 100, 115, 32, 109, 101, 101, 116>>,  \* where winds meet
    <<115, 105, 120, 116, 101, 101, 110, 32, 116, 111, 110, 101, 115>>,  \* sixteen tones
    <<121, 97, 110, 121, 117, 110>>,  \* yanyun
    <<115, 104, 101, 110, 103, 115, 104, 105>>,  \* shengshi
    <<112, 114, 111, 115, 112, 101, 114, 105, 116, 121>>,  \* prosperity
    <<116, 105, 97, 110, 120, 105, 97>>,  \* tianxia
    <<109, 97, 114, 118, 101, 108, 115>>  \* marvels
  >>

\* const knownForeignGiants, as code points
knownForeignGiants ==
  <<
    <<99, 97, 112, 99, 111, 109>>,  \* capcom
    <<117, 98, 105, 115, 111, 102, 116>>,  \* ubisoft
    <<101, 108, 101, 99, 116, 114, 111, 110, 105, 99, 32, 97, 114, 116, 115>>,  \* electronic arts
    <<115, 101, 103, 97>>,  \* sega
    <<98, 97, 110, 100, 97, 105, 32, 110, 97, 109, 99, 111>>,  \* bandai namco
    <<115, 113, 117, 97, 114, 101, 32, 101, 110, 105, 120>>,  \* square enix
    <<109, 105, 99, 114, 111, 115, 111, 102, 116>>,  \* microsoft
    <<115, 111, 110, 121>>,  \* sony
    <<98, 101, 116, 104, 101, 115, 100, 97>>,  \* bethesda
    <<102, 105, 114, 97, 120, 105, 115>>,  \* firaxis
    <<99, 100, 32, 112, 114, 111, 106, 101, 107, 116>>,  \* cd projekt
    <<114, 111, 99, 107, 115, 116, 97, 114>>,  \* rockstar
    <<118, 97, 108, 118, 101>>,  \* valve
    <<112, 97, 114, 97, 100, 111, 120>>,  \* paradox
    <<102, 114, 111, 109, 115, 111, 102, 116, 119, 97, 114, 101>>,  \* fromsoftware
    <<108, 97, 114, 105, 97, 110>>,  \* larian
    <<97, 99, 116, 105, 118, 105, 115, 105, 111, 110>>,  \* activision
    <<98, 108, 105, 122, 122, 97, 114, 100>>,  \* blizzard
    <<50, 107>>,  \* 2k
    <<116, 104, 113, 32, 110, 111, 114, 100, 105, 99>>,  \* thq nordic
    <<102, 111, 99, 117, 115, 32, 101, 110, 116, 101, 114, 116, 97, 105, 110, 109, 101, 110, 116>>,  \* focus entertainment
    <<110, 105, 110, 116, 101, 110, 100, 111>>,  \* nintendo
    <<107, 111, 110, 97, 109, 105>>,  \* konami
    <<116, 97, 107, 101, 45, 116, 119, 111>>,  \* take-two
    <<119, 97, 114, 110, 101, 114, 32, 98, 114, 111, 115>>  \* warner bros
  >>

\* /[\u4e00-\u9fa5]/.test(str)
hasChineseChars(str) == \E i \in 1..Len(str) : str[i] >= 19968 /\ str[i] <= 40869

\* KNOWN_CN_ENTITIES.some(k => str.includes(k))
isKnownEntity(str) ==
  \E n \in 1..Len(KNOWN_CN_ENTITIES) : Includes(str, KNOWN_CN_ENTITIES[n])

\* CULTURAL_KEYWORDS.some(k => str.includes(k))
hasCulturalKeyword(str) ==
  \E n \in 1..Len(CULTURAL_KEYWORDS) : Includes(str, CULTURAL_KEYWORDS[n])

\* VIP_WHITELIST.some(k => lowerName.includes(k))
isVip(lowerName) ==
  \E n \in 1..Len(VIP_WHITELIST) : Includes(lowerName, VIP_WHITELIST[n])

\* knownForeignGiants.some(k => str.includes(k))
isForeignGiant(str) ==
  \E n \in 1..Len(knownForeignGiants) : Includes(str, knownForeignGiants[n])

\* names.some(d => hasChineseChars(d))
someHasChineseChars(names) == \E n \in 1..Len(names) : hasChineseChars(names[n])

\* names.some(d => isKnownEntity(d))
someIsKnownEntity(names) == \E n \in 1..Len(names) : isKnownEntity(names[n])

\* names.some(d => knownForeignGiants.some(k => d.includes(k)))
someIsForeignGiant(names) == \E n \in 1..Len(names) : isForeignGiant(names[n])

\* names.map(d => d.toLowerCase())
LowerAll(names) == [n \in 1..Len(names) |-> ToLowerCase(names[n])]

\* The condition of the +50 of the support email (email is lower case).
emailSignal(email) ==
  \/ EndsWith(email, T_dot_cn)
  \/ Includes(email, T_qq_com)
  \/ Includes(email, T_163_com)
  \/ Includes(email, T_aliyun)
  \/ Includes(email, T_netease)

\* The condition of the +40 of the support URL (supportUrl is lower case).
urlSignal(supportUrl) ==
  \/ Includes(supportUrl, T_dot_cn)
  \/ Includes(supportUrl, T_weibo)
  \/ Includes(supportUrl, T_bilibili)

\* const hasChineseAudio
hasChineseAudio(supportedLangs) ==
  \/ TestThenI(supportedLangs, T_simplified_chinese,
               T_full_audio)
  \/ TestThenI(supportedLangs, T_jianti_zhongwen,
               T_wanquan_yinpin)
  \/ Includes(supportedLangs, T_hanyu)

\* const hasEnglishAudio
hasEnglishAudio(supportedLangs) ==
  TestThenI(supportedLangs, T_english,
            T_full_audio)

\* The email test of the publisher penalty: !email.includes('.cn')
emailExemptsPublisher(email) == Includes(email, T_dot_cn)

\* The publisher penalty: isPubForeignGiant && !devHasChinese && !devIsKnown
\* && !email.includes('.cn')
publisherPenalty(data) ==
  LET email == ToLowerCase(data.email) IN
  /\ someIsForeignGiant(LowerAll(data.publishers))
  /\ ~someHasChineseChars(data.developers)
  /\ ~someIsKnownEntity(LowerAll(data.developers))
  /\ ~emailExemptsPublisher(email)

\* The score with the developer penalty left out: no "score -= 200".
ScoreNoDeveloperPenalty(data) ==
  LET lowerName == ToLowerCase(data.name)
      lowerDevs == LowerAll(data.developers)
      lowerPubs == LowerAll(data.publishers)
      email == ToLowerCase(data.email)
      supportUrl == ToLowerCase(data.url)
  IN  (IF hasChineseChars(data.name) THEN 15 ELSE 0)
    + (IF hasCulturalKeyword(lowerName) THEN 25 ELSE 0)
    + (IF someHasChineseChars(data.developers) THEN 60 ELSE 0)
    + (IF someHasChineseChars(data.publishers) THEN 40 ELSE 0)
    + (IF someIsKnownEntity(lowerDevs) THEN 50 ELSE 0)
    + (IF someIsKnownEntity(lowerPubs) THEN 35 ELSE 0)
    + (IF emailSignal(email) THEN 50 ELSE 0)
    + (IF urlSignal(supportUrl) THEN 40 ELSE 0)
    + (IF hasChineseAudio(data.langs)
       THEN 25 + (IF ~hasEnglishAudio(data.langs) THEN 25 ELSE 0) ELSE 0)
    - (IF publisherPenalty(data) THEN 100 ELSE 0)

\* The score with the publisher's weight (40) given to a developer name in
\* Chinese characters as well.
ScoreDeveloperWeighedAsPublisher(data) ==
  LET lowerName == ToLowerCase(data.name)
      lowerDevs == LowerAll(data.developers)
      lowerPubs == LowerAll(data.publishers)
      email == ToLowerCase(data.email)
      supportUrl == ToLowerCase(data.url)
  IN  (IF hasChineseChars(data.name) THEN 15 ELSE 0)
    + (IF hasCulturalKeyword(lowerName) THEN 25 ELSE 0)
    + (IF someHasChineseChars(data.developers) THEN 40 ELSE 0)
    + (IF someHasChineseChars(data.publishers) THEN 40 ELSE 0)
    + (IF someIsKnownEntity(lowerDevs) THEN 50 ELSE 0)
    + (IF someIsKnownEntity(lowerPubs) THEN 35 ELSE 0)
    + (IF emailSignal(email) THEN 50 ELSE 0)
    + (IF urlSignal(supportUrl) THEN 40 ELSE 0)
    + (IF hasChineseAudio(data.langs)
       THEN 25 + (IF ~hasEnglishAudio(data.langs) THEN 25 ELSE 0) ELSE 0)
    - (IF someIsForeignGiant(lowerDevs) THEN 200 ELSE 0)
    - (IF publisherPenalty(data) THEN 100 ELSE 0)

\* let score, from "let score = 0" to the threshold decision, for the detail
\* object data = [name, developers, publishers, email, url, langs].
Score(data) ==
  LET lowerName == ToLowerCase(data.name)
      lowerDevs == LowerAll(data.developers)
      lowerPubs == LowerAll(data.publishers)
      email == ToLowerCase(data.email)
      supportUrl == ToLowerCase(data.url)
  IN  (IF hasChineseChars(data.name) THEN 15 ELSE 0)
    + (IF hasCulturalKeyword(lowerName) THEN 25 ELSE 0)
    + (IF someHasChineseChars(data.developers) THEN 60 ELSE 0)
    + (IF someHasChineseChars(data.publishers) THEN 40 ELSE 0)
    + (IF someIsKnownEntity(lowerDevs) THEN 50 ELSE 0)
    + (IF someIsKnownEntity(lowerPubs) THEN 35 ELSE 0)
    + (IF emailSignal(email) THEN 50 ELSE 0)
    + (IF urlSignal(supportUrl) THEN 40 ELSE 0)
    + (IF hasChineseAudio(data.langs)
       THEN 25 + (IF ~hasEnglishAudio(data.langs) THEN 25 ELSE 0) ELSE 0)
    - (IF someIsForeignGiant(lowerDevs) THEN 200 ELSE 0)
    - (IF publisherPenalty(data) THEN 100 ELSE 0)

\* A game as fetchSearchPage finds it (hasScore FALSE) and as
\* verifyDomesticGame annotates it: developer, publishers and score.
Game(appid, name, total_reviews) ==
  [appid |-> appid, name |-> name, total_reviews |-> total_reviews,
   developer |-> <<>>, publishers |-> <<>>, hasScore |-> FALSE, score |-> 0]

\* The score is added to the score the call before has returned, as by a
\* "let score" that outlives the call.
AnnotatedOverEarlierScore(game, data, score) ==
  [game EXCEPT !.name = data.name, !.developer = JoinComma(data.developers),
               !.publishers = data.publishers, !.hasScore = TRUE,
               !.score = score + vresult.game.score]

\* { ...game, name: data.name, developer: developers.join(', '),
\*   publishers: publishers, score }
Annotated(game, data, score) ==
  [game EXCEPT !.name = data.name, !.developer = JoinComma(data.developers),
               !.publishers = data.publishers, !.hasScore = TRUE,
               !.score = score]

\* What a call of verifyDomesticGame or of its body ends with: an exception,
\* null, or a game.
NoGame == Game(0, <<>>, 0)
ThrewOut == [threw |-> TRUE, null |-> FALSE, game |-> NoGame]
NullOut == [threw |-> FALSE, null |-> TRUE, game |-> NoGame]
GameOut(g) == [threw |-> FALSE, null |-> FALSE, game |-> g]

\* The detail object of a response without one.
NoData ==
  [name |-> <<>>, developers |-> <<>>, publishers |-> <<>>, email |-> <<>>,
   url |-> <<>>, langs |-> <<>>]

\* What "await fetchWithProxy(url)" of verifyDomesticGame ends with: the
\* relays are exhausted (threw), or a value: null, a raw text, or an object
\* holding under the id key an entry [success, hasData, data] (key 0: the
\* object holds no entry).
DetailThrew ==
  [threw |-> TRUE, kind |-> "none", key |-> 0, success |-> FALSE,
   hasData |-> FALSE, data |-> NoData]
DetailValue(kind, key, success, hasData, data) ==
  [threw |-> FALSE, kind |-> kind, key |-> key, success |-> success,
   hasData |-> hasData, data |-> data]

\* The try block with the VIP test moved behind the threshold decision.
verifyBodyVipAfterScoring(game, response) ==
  IF response.threw THEN ThrewOut
  ELSE IF response.kind # "obj" \/ response.key # game.appid \/ ~response.success
    THEN NullOut
  ELSE IF ~response.hasData THEN ThrewOut
  ELSE LET data == response.data
           score == Score(data) IN
    IF score >= 25 THEN GameOut(Annotated(game, data, score))
    ELSE IF isVip(ToLowerCase(data.name))
      THEN GameOut(Annotated(game, data, 999))
    ELSE NullOut

\* The try block of verifyDomesticGame.
verifyBody(game, response) ==
  IF response.threw THEN ThrewOut
  ELSE IF response.kind # "obj" \/ response.key # game.appid \/ ~response.success
    THEN NullOut
  ELSE IF ~response.hasData THEN ThrewOut  \* data.developers of undefined
  ELSE LET data == response.data IN
    IF isVip(ToLowerCase(data.name)) THEN GameOut(Annotated(game, data, 999))
    ELSE LET score == Score(data) IN
      IF score >= 25 THEN GameOut(Annotated(game, data, score))
      ELSE NullOut

\* verifyDomesticGame without its catch.
verifyDomesticGameNoCatch(game, response) == verifyBody(game, response)

\* verifyDomesticGame: the try block, and the catch that returns null.
verifyDomesticGame(game, response) ==
  LET out == verifyBody(game, response) IN
  IF out.threw THEN NullOut ELSE out

\* The texts the detail objects of the model are made of.
NamePool ==
  { <<80, 111, 114, 116, 97, 108>>,  \* "Portal"
    <<87, 117, 107, 111, 110, 103>>,  \* "Wukong"
    <<40657, 31070, 35805>>,  \* "\u9ed1\u795e\u8bdd"
    <<40657, 31070, 35805, 32, 87, 117, 107, 111, 110, 103>>,  \* "\u9ed1\u795e\u8bdd Wukong"
    <<87, 85, 67, 72, 65, 78, 71>> }  \* "WUCHANG"

DevelopersPool ==
  { <<>>,
    << <<86, 97, 108, 118, 101>> >>,  \* ["Valve"]
    << <<71, 97, 109, 101, 32, 83, 99, 105, 101, 110, 99, 101>> >>,  \* ["Game Science"]
    << <<28216, 31185>> >>,  \* ["\u6e38\u79d1"]
    << <<73, 110, 100, 105, 101>>, <<83, 101, 103, 97, 32, 83, 104, 97, 110, 103, 104, 97, 105>> >> }  \* ["Indie", "Sega Shanghai"]

PublishersPool ==
  { <<>>,
    << <<83, 101, 103, 97>> >>,  \* ["Sega"]
    << <<66, 105, 108, 105, 98, 105, 108, 105>> >>,  \* ["Bilibili"]
    << <<33150, 35759>> >>,  \* ["\u817e\u8baf"]
    << <<65, 99, 109, 101>>, <<50, 75>> >> }  \* ["Acme", "2K"]

EmailPool ==
  { <<>>,
    <<97, 64, 113, 113, 46, 99, 111, 109>>,  \* "a@qq.com"
    <<65, 64, 66, 46, 67, 78>>,  \* "A@B.CN"
    <<97, 64, 98, 46, 99, 110, 46, 99, 111, 109>> }  \* "a@b.cn.com"

UrlPool ==
  { <<>>,
    <<98, 46, 99, 111, 109>>,  \* "b.com"
    <<87, 101, 105, 98, 111, 46, 99, 111, 109>> }  \* "Weibo.com"

LangsPool ==
  { <<>>,
    <<83, 105, 109, 112, 108, 105, 102, 105, 101, 100, 32, 67, 104, 105, 110, 101, 115, 101, 60, 115, 116, 114, 111, 110, 103, 62, 70, 117, 108, 108, 32, 65, 117, 100, 105, 111, 60, 47, 115, 116, 114, 111, 110, 103, 62>>,
    <<69, 110, 103, 108, 105, 115, 104, 60, 115, 116, 114, 111, 110, 103, 62, 70, 117, 108, 108, 32, 65, 117, 100, 105, 111, 60, 47, 115, 116, 114, 111, 110, 103, 62>>,
    <<69, 110, 103, 108, 105, 115, 104, 60, 115, 116, 114, 111, 110, 103, 62, 70, 117, 108, 108, 32, 65, 117, 100, 105, 111, 60, 47, 115, 116, 114, 111, 110, 103, 62, 44, 32, 83, 105, 109, 112, 108, 105, 102, 105, 101, 100, 32, 67, 104, 105, 110, 101, 115, 101, 60, 115, 116, 114, 111, 110, 103, 62, 70, 117, 108, 108, 32, 65, 117, 100, 105, 111, 60, 47, 115, 116, 114, 111, 110, 103, 62>> }

DataPool ==
  [name : NamePool, developers : DevelopersPool, publishers : PublishersPool,
   email : EmailPool, url : UrlPool, langs : LangsPool]

\* The appids of the model's games.
AppIds == {10, 20}

DetailResponses ==
  { DetailThrew,
    DetailValue("null", 0, FALSE, FALSE, NoData),
    DetailValue("text", 0, FALSE, FALSE, NoData),
    DetailValue("obj", 0, FALSE, FALSE, NoData) }
  \cup { DetailValue("obj", k, FALSE, FALSE, NoData) : k \in AppIds }
  \cup { DetailValue("obj", k, TRUE, FALSE, NoData) : k \in AppIds }
  \cup { DetailValue("obj", 10, TRUE, TRUE, d) : d \in DataPool }

\* The call verifyDomesticGame(vgame): the fetch settles with vresponse and
\* the call resolves (or, were there no catch, rejects).
Verify ==
  /\ vpc = "call"
  /\ vpc' = "done"
  /\ vresult' = verifyDomesticGame(vgame, vresponse)
  /\ UNCHANGED <<vgame, vresponse, vfirst>>
  /\ UNCHANGED <<relayVars, pageVars, scanVars, reviewVars, uiVars>>

\* verifyDomesticGame is called once more for the same game, and its relay
\* call ends with the same response.
VerifyAgain ==
  /\ vpc = "done"
  /\ vpc' = "again"
  /\ vfirst' = vresult
  /\ vresult' = verifyDomesticGame(vgame, vresponse)
  /\ UNCHANGED <<vgame, vresponse>>
  /\ UNCHANGED <<relayVars, pageVars, scanVars, reviewVars, uiVars>>

----------------------------------------------------------------------------
(* fetchSearchPage: the search page scanner.                               *)

T_user_reviews == <<117, 115, 101, 114, 32, 114, 101, 118, 105, 101, 119, 115>>  \* "user reviews"
T_pian_yonghu_pingce == <<31687, 29992, 25143, 35780, 27979>>  \* "\u7bc7\u7528\u6237\u8bc4\u6d4b"
T_Unknown == <<85, 110, 107, 110, 111, 119, 110>>  \* "Unknown"

\* The value NaN of parseInt, which is no count and no appid.
NaN == -1

\* \s of a regular expression, and what trim() and parseInt skip.
Whitespace ==
  {9, 10, 11, 12, 13, 32, 160, 5760, 8232, 8233, 8239, 8287, 12288, 65279}
  \cup 8192..8202

\* str.trim()
RECURSIVE TrimStart(_)
TrimStart(s) ==
  IF s # <<>> /\ s[1] \in Whitespace THEN TrimStart(Tail(s)) ELSE s

RECURSIVE TrimEnd(_)
TrimEnd(s) ==
  IF s # <<>> /\ s[Len(s)] \in Whitespace
  THEN TrimEnd(SubSeq(s, 1, Len(s) - 1)) ELSE s

Trim(s) == TrimEnd(TrimStart(s))

IsDigit(c) == c \in 48..57

\* The number a sequence of digits denotes (0 for none).
RECURSIVE DigitsValue(_)
DigitsValue(ds) ==
  IF ds = <<>> THEN 0
  ELSE 10 * DigitsValue(SubSeq(ds, 1, Len(ds) - 1)) + (ds[Len(ds)] - 48)

\* The longest prefix of s whose code points are in the set cs.
PrefixIn(s, cs) ==
  LET n == CHOOSE k \in 0..Len(s) :
             /\ \A m \in 1..k : s[m] \in cs
             /\ k = Len(s) \/ s[k + 1] \notin cs
  IN SubSeq(s, 1, n)

DigitChars == 48..57

\* parseInt(s) for a text without sign: white space is skipped, the leading
\* digits are read, NaN when there is none.
ParseInt(s) ==
  LET ds == PrefixIn(TrimStart(s), DigitChars) IN
  IF ds = <<>> THEN NaN ELSE DigitsValue(ds)

\* s.split(',')[0]
FirstSegment(s) ==
  LET n == CHOOSE k \in 0..Len(s) :
             /\ \A m \in 1..k : s[m] # 44
             /\ k = Len(s) \/ s[k + 1] = 44
  IN SubSeq(s, 1, n)

\* s.replace(/,/g, '')
RECURSIVE RemoveCommas(_)
RemoveCommas(s) ==
  IF s = <<>> THEN <<>>
  ELSE (IF s[1] = 44 THEN <<>> ELSE <<s[1]>>) \o RemoveCommas(Tail(s))

\* The date test with the pattern /20(2[0-9]|[3-9][0-9])/: the years from
\* 2020 on.
yearMatchFromTwenty(releaseDate) ==
  \E i \in 1..(Len(releaseDate) - 3) :
    /\ releaseDate[i] = 50
    /\ releaseDate[i + 1] = 48
    /\ releaseDate[i + 2] \in 50..57
    /\ IsDigit(releaseDate[i + 3])

\* releaseDate.match(/20(2[5-9]|[3-9][0-9])/) is not null
yearMatch(releaseDate) ==
  \E i \in 1..(Len(releaseDate) - 3) :
    /\ releaseDate[i] = 50
    /\ releaseDate[i + 1] = 48
    /\ \/ releaseDate[i + 2] = 50 /\ releaseDate[i + 3] \in 53..57
       \/ releaseDate[i + 2] \in 51..57 /\ IsDigit(releaseDate[i + 3])

\* [0-9,]
CountChars == DigitChars \cup {44}

\* Whether /([0-9,]+)\s*(?:user reviews|...)/ matches tooltip from position
\* i: the longest run of [0-9,] from i, white space, one of the two labels.
CountMatchesAt(tooltip, i) ==
  LET rest == SubSeq(tooltip, i, Len(tooltip))
      run == PrefixIn(rest, CountChars)
      after == TrimStart(SubSeq(rest, Len(run) + 1, Len(rest)))
  IN /\ run # <<>>
     /\ \/ At(after, 1, T_user_reviews)
        \/ At(after, 1, T_pian_yonghu_pingce)

\* reviewCount: 0 without a match, otherwise parseInt of group 1 of the
\* leftmost match, its commas removed.
reviewCount(tooltip) ==
  LET starts == { i \in 1..Len(tooltip) : CountMatchesAt(tooltip, i) } IN
  IF starts = {} THEN 0
  ELSE LET i == CHOOSE m \in starts : \A n \in starts : m <= n
           group == PrefixIn(SubSeq(tooltip, i, Len(tooltip)), CountChars)
       IN ParseInt(RemoveCommas(group))

\* let tooltip: the attributes of .search_review_summary when the row has
\* that span, else data-store-tooltip of .search_reviewscore. A row is
\* [appidStr, released, hasSummary, tooltipHtml, storeTooltip, scoreTooltip,
\* title]; an absent attribute or element is the empty text.
tooltipOf(row) ==
  IF row.hasSummary
  THEN (IF row.tooltipHtml # <<>> THEN row.tooltipHtml ELSE row.storeTooltip)
  ELSE row.scoreTooltip

\* reviewCount <= 1000, which is false for NaN.
AtMostThousand(count) == count # NaN /\ count <= 1000

\* Whether the callback of rows.forEach pushes the row to found.
rowKept(row) ==
  /\ row.appidStr # <<>>
  /\ yearMatch(Trim(row.released))
  /\ ~AtMostThousand(reviewCount(tooltipOf(row)))

\* The game the callback pushes for a row it keeps.
rowGame(row) ==
  Game(ParseInt(FirstSegment(row.appidStr)),
       (IF Trim(row.title) # <<>> THEN Trim(row.title) ELSE T_Unknown),
       reviewCount(tooltipOf(row)))

\* rows.forEach(...): found, for the rows of the parsed document in order.
RECURSIVE foundIn(_)
foundIn(rows) ==
  IF rows = <<>> THEN <<>>
  ELSE (IF rowKept(rows[1]) THEN <<rowGame(rows[1])>> ELSE <<>>)
       \o foundIn(Tail(rows))

\* What "await fetchWithProxy(searchUrl)" of fetchSearchPage ends with: the
\* relays are exhausted (threw), or a value: null, a raw text, or an object
\* whose results_html (when hasHtml) parses to the rows given.
PageThrew == [threw |-> TRUE, kind |-> "none", hasHtml |-> FALSE, rows |-> <<>>]
PageValue(kind, hasHtml, rows) ==
  [threw |-> FALSE, kind |-> kind, hasHtml |-> hasHtml, rows |-> rows]

\* What a call of fetchSearchPage or of its body ends with.
PageOut(threw, found) == [threw |-> threw, found |-> found]

\* The try block of fetchSearchPage.
searchPageBody(response) ==
  IF response.threw THEN PageOut(TRUE, <<>>)
  ELSE IF response.kind # "obj" \/ ~response.hasHtml THEN PageOut(FALSE, <<>>)
  ELSE PageOut(FALSE, foundIn(response.rows))

\* fetchSearchPage without its catch.
fetchSearchPageNoCatch(response) == searchPageBody(response)

\* fetchSearchPage: the try block, and the catch that returns [].
fetchSearchPage(response) ==
  LET out == searchPageBody(response) IN
  IF out.threw THEN PageOut(FALSE, <<>>) ELSE out

\* A result row of the parsed search page.
Row(appidStr, released, hasSummary, tooltipHtml, storeTooltip, scoreTooltip, title) ==
  [appidStr |-> appidStr, released |-> released, hasSummary |-> hasSummary,
   tooltipHtml |-> tooltipHtml, storeTooltip |-> storeTooltip,
   scoreTooltip |-> scoreTooltip, title |-> title]

\* The rows the search pages of the model are made of.
RowPool ==
    \* "10" | "2025" | "Very Positive<br>95% of the 1,234 user reviews" | "Ten"
  { Row(<<49, 48>>,
        <<50, 48, 50, 53>>,
        TRUE, <<86, 101, 114, 121, 32, 80, 111, 115, 105, 116, 105, 118, 101, 60, 98, 114, 62, 57, 53, 37, 32, 111, 102, 32, 116, 104, 101, 32, 49, 44, 50, 51, 52, 32, 117, 115, 101, 114, 32, 114, 101, 118, 105, 101, 119, 115>>,
        <<>>,
        <<>>,
        <<84, 101, 110>>),
    \* "20,30" | "Q1 2026" | "1,001 user reviews" | " Twenty "
    Row(<<50, 48, 44, 51, 48>>,
        <<81, 49, 32, 50, 48, 50, 54>>,
        TRUE, <<>>,
        <<49, 44, 48, 48, 49, 32, 117, 115, 101, 114, 32, 114, 101, 118, 105, 101, 119, 115>>,
        <<>>,
        <<32, 84, 119, 101, 110, 116, 121, 32>>),
    \* "40" | "21 Dec, 2099" | "2,345 \u7bc7\u7528\u6237\u8bc4\u6d4b"
    Row(<<52, 48>>,
        <<50, 49, 32, 68, 101, 99, 44, 32, 50, 48, 57, 57>>,
        FALSE, <<>>,
        <<>>,
        <<50, 44, 51, 52, 53, 32, 31687, 29992, 25143, 35780, 27979>>,
        <<>>),
    \* "50" | "2025" | "1,000 user reviews" | "Fifty"
    Row(<<53, 48>>,
        <<50, 48, 50, 53>>,
        TRUE, <<49, 44, 48, 48, 48, 32, 117, 115, 101, 114, 32, 114, 101, 118, 105, 101, 119, 115>>,
        <<>>,
        <<>>,
        <<70, 105, 102, 116, 121>>),
    \* "60" | "2024" | "9,999 user reviews" | "Sixty"
    Row(<<54, 48>>,
        <<50, 48, 50, 52>>,
        TRUE, <<57, 44, 57, 57, 57, 32, 117, 115, 101, 114, 32, 114, 101, 118, 105, 101, 119, 115>>,
        <<>>,
        <<>>,
        <<83, 105, 120, 116, 121>>),
    \* "70" | "2100" | "9,999 user reviews" | "Seventy"
    Row(<<55, 48>>,
        <<50, 49, 48, 48>>,
        TRUE, <<57, 44, 57, 57, 57, 32, 117, 115, 101, 114, 32, 114, 101, 118, 105, 101, 119, 115>>,
        <<>>,
        <<>>,
        <<83, 101, 118, 101, 110, 116, 121>>),
    \* "2025" | "9,999 user reviews" | "NoId"
    Row(<<>>,
        <<50, 48, 50, 53>>,
        TRUE, <<57, 44, 57, 57, 57, 32, 117, 115, 101, 114, 32, 114, 101, 118, 105, 101, 119, 115>>,
        <<>>,
        <<>>,
        <<78, 111, 73, 100>>),
    \* "80" | "2025" | "9,999 user reviews" | "Eighty"
    Row(<<56, 48>>,
        <<50, 48, 50, 53>>,
        TRUE, <<>>,
        <<>>,
        <<57, 44, 57, 57, 57, 32, 117, 115, 101, 114, 32, 114, 101, 118, 105, 101, 119, 115>>,
        <<69, 105, 103, 104, 116, 121>>),
    \* "90" | "2025" | ", user reviews" | "Ninety"
    Row(<<57, 48>>,
        <<50, 48, 50, 53>>,
        TRUE, <<44, 32, 117, 115, 101, 114, 32, 114, 101, 118, 105, 101, 119, 115>>,
        <<>>,
        <<>>,
        <<78, 105, 110, 101, 116, 121>>),
    \* "x" | "2025" | "5,000 user reviews" | "NoNumber"
    Row(<<120>>,
        <<50, 48, 50, 53>>,
        FALSE, <<>>,
        <<>>,
        <<53, 44, 48, 48, 48, 32, 117, 115, 101, 114, 32, 114, 101, 118, 105, 101, 119, 115>>,
        <<78, 111, 78, 117, 109, 98, 101, 114>>),
    \* "110" | "20 Dec, 2024" | "9,999 user reviews" | "OldDay"
    Row(<<49, 49, 48>>,
        <<50, 48, 32, 68, 101, 99, 44, 32, 50, 48, 50, 52>>,
        TRUE, <<57, 44, 57, 57, 57, 32, 117, 115, 101, 114, 32, 114, 101, 118, 105, 101, 119, 115>>,
        <<>>,
        <<>>,
        <<79, 108, 100, 68, 97, 121>>),
    \* "120" | "2024 \u5e74 12 \u6708 20 \u65e5" | "9,999 user reviews" | "OldCn"
    Row(<<49, 50, 48>>,
        <<50, 48, 50, 52, 32, 24180, 32, 49, 50, 32, 26376, 32, 50, 48, 32, 26085>>,
        TRUE, <<57, 44, 57, 57, 57, 32, 117, 115, 101, 114, 32, 114, 101, 118, 105, 101, 119, 115>>,
        <<>>,
        <<>>,
        <<79, 108, 100, 67, 110>>),
    \* "130" | "2025 \u5e74 1 \u6708 15 \u65e5" | "9,999 user reviews" | "NewCn"
    Row(<<49, 51, 48>>,
        <<50, 48, 50, 53, 32, 24180, 32, 49, 32, 26376, 32, 49, 53, 32, 26085>>,
        TRUE, <<57, 44, 57, 57, 57, 32, 117, 115, 101, 114, 32, 114, 101, 118, 105, 101, 119, 115>>,
        <<>>,
        <<>>,
        <<78, 101, 119, 67, 110>>),
    \* "140" | "2020/12/25" | "9,999 user reviews" | "Slashes"
    Row(<<49, 52, 48>>,
        <<50, 48, 50, 48, 47, 49, 50, 47, 50, 53>>,
        TRUE, <<57, 44, 57, 57, 57, 32, 117, 115, 101, 114, 32, 114, 101, 118, 105, 101, 119, 115>>,
        <<>>,
        <<>>,
        <<83, 108, 97, 115, 104, 101, 115>>),
    \* "150" | "Coming soon" | "9,999 user reviews" | "Soon"
    Row(<<49, 53, 48>>,
        <<67, 111, 109, 105, 110, 103, 32, 115, 111, 111, 110>>,
        TRUE, <<57, 44, 57, 57, 57, 32, 117, 115, 101, 114, 32, 114, 101, 118, 105, 101, 119, 115>>,
        <<>>,
        <<>>,
        <<83, 111, 111, 110>>),
    \* "160" | "" | "9,999 user reviews" | "NoDate"
    Row(<<49, 54, 48>>,
        <<>>,
        TRUE, <<57, 44, 57, 57, 57, 32, 117, 115, 101, 114, 32, 114, 101, 118, 105, 101, 119, 115>>,
        <<>>,
        <<>>,
        <<78, 111, 68, 97, 116, 101>>),
    \* "170" | "25 Dec, 1999" | "9,999 user reviews" | "Ninties"
    Row(<<49, 55, 48>>,
        <<50, 53, 32, 68, 101, 99, 44, 32, 49, 57, 57, 57>>,
        TRUE, <<57, 44, 57, 57, 57, 32, 117, 115, 101, 114, 32, 114, 101, 118, 105, 101, 119, 115>>,
        <<>>,
        <<>>,
        <<78, 105, 110, 116, 105, 101, 115>>),
    \* "180" | " 15 Jan, 2030 " | "9,999 user reviews" | "Thirty"
    Row(<<49, 56, 48>>,
        <<32, 49, 53, 32, 74, 97, 110, 44, 32, 50, 48, 51, 48, 32>>,
        TRUE, <<57, 44, 57, 57, 57, 32, 117, 115, 101, 114, 32, 114, 101, 118, 105, 101, 119, 115>>,
        <<>>,
        <<>>,
        <<84, 104, 105, 114, 116, 121>>) }

\* The row lists of at most MaxRows rows of the pool.
RowLists == UNION { [1..n -> RowPool] : n \in 0..MaxRows }

\* What the relay call of one fetchSearchPage may end with.
PageResponses ==
  { PageThrew, PageValue("null", FALSE, <<>>), PageValue("text", FALSE, <<>>),
    PageValue("obj", FALSE, <<>>) }
  \cup { PageValue("obj", TRUE, rows) : rows \in RowLists }

\* The call fetchSearchPage(pageIndex, batchSize): the fetch settles with
\* presponse and the call resolves (or, were there no catch, rejects).
ScanPage ==
  /\ ppc = "call"
  /\ ppc' = "done"
  /\ presult' = fetchSearchPage(presponse)
  /\ UNCHANGED presponse
  /\ UNCHANGED <<relayVars, verifyVars, scanVars, reviewVars, uiVars>>

----------------------------------------------------------------------------
(* scanForHighTrafficGames: the scan orchestrator.                         *)

MAX_PAGES == 40
PAGE_CONCURRENCY == 3
CHUNK_SIZE == 8

Min(a, b) == IF a <= b THEN a ELSE b

\* The decimal digits of a positive number, as text.
RECURSIVE Digits(_)
Digits(n) ==
  IF n < 10 THEN <<48 + n>> ELSE Digits(n \div 10) \o <<48 + (n % 10)>>

T_user_reviews_tail == <<32, 117, 115, 101, 114, 32, 114, 101, 118, 105, 101, 119, 115>>  \* " user reviews"

\* The store of the model: per product the release label and the review
\* count text of its search row, and the detail object of its appdetails
\* entry; the product's appid is its place in the list. found says how the
\* appdetails call goes: "ok", "fails" (the relays are exhausted), "denied"
\* (success: false).
Catalog ==
  <<
    \* 1: "2025", "1,500", ok: name "Portal", developers ['\u6e38\u79d1'], publishers [], email "", url ""
    [released |-> <<50, 48, 50, 53>>, count |-> <<49, 44, 53, 48, 48>>, found |-> "ok",
     data |-> [name |-> <<80, 111, 114, 116, 97, 108>>, developers |-> <<<<28216, 31185>>>>,
               publishers |-> <<>>, email |-> <<>>,
               url |-> <<>>, langs |-> <<>>]],
    \* 2: "Q1 2026", "3,000", ok: name "WUCHANG", developers ['Valve'], publishers [], email "", url ""
    [released |-> <<81, 49, 32, 50, 48, 50, 54>>, count |-> <<51, 44, 48, 48, 48>>, found |-> "ok",
     data |-> [name |-> <<87, 85, 67, 72, 65, 78, 71>>, developers |-> <<<<86, 97, 108, 118, 101>>>>,
               publishers |-> <<>>, email |-> <<>>,
               url |-> <<>>, langs |-> <<>>]],
    \* 3: "2025", "2,000", ok: name "Portal", developers ['Valve'], publishers ['Sega'], email "", url ""
    [released |-> <<50, 48, 50, 53>>, count |-> <<50, 44, 48, 48, 48>>, found |-> "ok",
     data |-> [name |-> <<80, 111, 114, 116, 97, 108>>, developers |-> <<<<86, 97, 108, 118, 101>>>>,
               publishers |-> <<<<83, 101, 103, 97>>>>, email |-> <<>>,
               url |-> <<>>, langs |-> <<>>]],
    \* 4: "2025", "1,001", fails: name "Portal", developers [], publishers [], email "", url ""
    [released |-> <<50, 48, 50, 53>>, count |-> <<49, 44, 48, 48, 49>>, found |-> "fails",
     data |-> [name |-> <<80, 111, 114, 116, 97, 108>>, developers |-> <<>>,
               publishers |-> <<>>, email |-> <<>>,
               url |-> <<>>, langs |-> <<>>]],
    \* 5: "15 Jan, 2025", "5,000", ok: name "Portal", developers [], publishers ['Bilibili'], email "", url ""
    [released |-> <<49, 53, 32, 74, 97, 110, 44, 32, 50, 48, 50, 53>>, count |-> <<53, 44, 48, 48, 48>>, found |-> "ok",
     data |-> [name |-> <<80, 111, 114, 116, 97, 108>>, developers |-> <<>>,
               publishers |-> <<<<66, 105, 108, 105, 98, 105, 108, 105>>>>, email |-> <<>>,
               url |-> <<>>, langs |-> <<>>]],
    \* 6: "2025", "4,500", denied: name "Portal", developers [], publishers [], email "", url ""
    [released |-> <<50, 48, 50, 53>>, count |-> <<52, 44, 53, 48, 48>>, found |-> "denied",
     data |-> [name |-> <<80, 111, 114, 116, 97, 108>>, developers |-> <<>>,
               publishers |-> <<>>, email |-> <<>>,
               url |-> <<>>, langs |-> <<>>]],
    \* 7: "2026", "1,200", ok: name "Wukong", developers [], publishers [], email "", url ""
    [released |-> <<50, 48, 50, 54>>, count |-> <<49, 44, 50, 48, 48>>, found |-> "ok",
     data |-> [name |-> <<87, 117, 107, 111, 110, 103>>, developers |-> <<>>,
               publishers |-> <<>>, email |-> <<>>,
               url |-> <<>>, langs |-> <<>>]],
    \* 8: "2025", "4,000", ok: name "Portal", developers [], publishers [], email "a@qq.com", url ""
    [released |-> <<50, 48, 50, 53>>, count |-> <<52, 44, 48, 48, 48>>, found |-> "ok",
     data |-> [name |-> <<80, 111, 114, 116, 97, 108>>, developers |-> <<>>,
               publishers |-> <<>>, email |-> <<97, 64, 113, 113, 46, 99, 111, 109>>,
               url |-> <<>>, langs |-> <<>>]],
    \* 9: "2025", "2,500", ok: name "Portal", developers [], publishers [], email "", url "Weibo.com"
    [released |-> <<50, 48, 50, 53>>, count |-> <<50, 44, 53, 48, 48>>, found |-> "ok",
     data |-> [name |-> <<80, 111, 114, 116, 97, 108>>, developers |-> <<>>,
               publishers |-> <<>>, email |-> <<>>,
               url |-> <<87, 101, 105, 98, 111, 46, 99, 111, 109>>, langs |-> <<>>]],
    \* 10: "2025", "2,500", ok: name "Portal", developers [], publishers ['Sega'], email "a@qq.com", url ""
    [released |-> <<50, 48, 50, 53>>, count |-> <<50, 44, 53, 48, 48>>, found |-> "ok",
     data |-> [name |-> <<80, 111, 114, 116, 97, 108>>, developers |-> <<>>,
               publishers |-> <<<<83, 101, 103, 97>>>>, email |-> <<97, 64, 113, 113, 46, 99, 111, 109>>,
               url |-> <<>>, langs |-> <<>>]],
    \* 11: "2024", "9,000", ok: name "Portal", developers ['\u6e38\u79d1'], publishers [], email "", url ""
    [released |-> <<50, 48, 50, 52>>, count |-> <<57, 44, 48, 48, 48>>, found |-> "ok",
     data |-> [name |-> <<80, 111, 114, 116, 97, 108>>, developers |-> <<<<28216, 31185>>>>,
               publishers |-> <<>>, email |-> <<>>,
               url |-> <<>>, langs |-> <<>>]],
    \* 12: "2025", "1,000", ok: name "Portal", developers ['\u6e38\u79d1'], publishers [], email "", url ""
    [released |-> <<50, 48, 50, 53>>, count |-> <<49, 44, 48, 48, 48>>, found |-> "ok",
     data |-> [name |-> <<80, 111, 114, 116, 97, 108>>, developers |-> <<<<28216, 31185>>>>,
               publishers |-> <<>>, email |-> <<>>,
               url |-> <<>>, langs |-> <<>>]]
  >>

\* The search row of product a.
CatalogRow(a) ==
  Row(Digits(a), Catalog[a].released, TRUE,
      Catalog[a].count \o T_user_reviews_tail, <<>>, <<>>,
      Catalog[a].data.name)

\* What the appdetails call for appid ends with.
DetailFor(appid) ==
  IF appid \notin 1..Len(Catalog) THEN DetailValue("obj", 0, FALSE, FALSE, NoData)
  ELSE IF Catalog[appid].found = "fails" THEN DetailThrew
  ELSE IF Catalog[appid].found = "denied"
    THEN DetailValue("obj", appid, FALSE, FALSE, NoData)
  ELSE DetailValue("obj", appid, TRUE, TRUE, Catalog[appid].data)

\* The rows of the products lo..hi.
RowsOf(ids) == [n \in 1..Len(ids) |-> CatalogRow(ids[n])]

\* What the relay call of the search page p may end with: one of the first
\* LivePages pages lists products (a product may be on several pages and
\* twice on one), a later page is empty; every call may fail.
PageResponsesFor(p) ==
  { PageThrew, PageValue("obj", TRUE, <<>>) }
  \cup IF p < LivePages
       THEN { PageValue("obj", TRUE, RowsOf(<<1, 2, 3, 4, 5, 6>>)),
              PageValue("obj", TRUE, RowsOf(<<5, 6, 7, 8, 9, 10, 11, 12>>)),
              PageValue("obj", TRUE, RowsOf(<<9, 9, 2, 10>>)) }
       ELSE {}

\* c.appid === g.appid
SameAppid(a, b) == a # NaN /\ a = b

\* Every game is pushed, also one whose appid candidates holds already.
RECURSIVE pushEvery(_, _)
pushEvery(cands, gs) ==
  IF gs = <<>> THEN cands ELSE pushEvery(Append(cands, gs[1]), Tail(gs))

\* results.flat().forEach(g => { if (!candidates.some(...)) candidates.push(g) })
RECURSIVE pushNew(_, _)
pushNew(cands, gs) ==
  IF gs = <<>> THEN cands
  ELSE pushNew(IF \E n \in 1..Len(cands) : SameAppid(cands[n].appid, gs[1].appid)
               THEN cands ELSE Append(cands, gs[1]),
               Tail(gs))

\* results.flat(), for the results of the positions lo..hi in order.
RECURSIVE flat(_, _, _)
flat(res, lo, hi) ==
  IF lo > hi THEN <<>> ELSE res[lo] \o flat(res, lo + 1, hi)

\* Every result is pushed, also null.
RECURSIVE pushValidAndNull(_, _, _, _)
pushValidAndNull(valid, res, lo, hi) ==
  IF lo > hi THEN valid
  ELSE pushValidAndNull(Append(valid, res[lo].game), res, lo + 1, hi)

\* results.forEach(res => { if (res) validGames.push(res) })
RECURSIVE pushValid(_, _, _, _)
pushValid(valid, res, lo, hi) ==
  IF lo > hi THEN valid
  ELSE pushValid(IF res[lo].null THEN valid ELSE Append(valid, res[lo].game),
                 res, lo + 1, hi)

\* (g.total_reviews || 0)
reviewsOrZero(g) == IF g.total_reviews = NaN THEN 0 ELSE g.total_reviews

\* validGames.sort((a, b) => (b.total_reviews || 0) - (a.total_reviews || 0)):
\* the stable sort of Array.prototype.sort, by insertion.
RECURSIVE sortByReviews(_)
sortByReviews(gs) ==
  IF gs = <<>> THEN <<>>
  ELSE LET before == sortByReviews(SubSeq(gs, 1, Len(gs) - 1))
           g == gs[Len(gs)]
           n == Cardinality({ m \in 1..Len(before) :
                                reviewsOrZero(before[m]) >= reviewsOrZero(g) })
       IN SubSeq(before, 1, n) \o <<g>> \o SubSeq(before, n + 1, Len(before))

\* The list the function returns after the try statement.
finalList(valid) == sortByReviews(valid)

\* The list the catch clause returns.
partialList(valid) == valid

\* The errors the progress callback may throw.
Exceptions == {"E1", "E2"}

\* A catch clause that returns validGames also when it is empty.
CatchReturningAlways(e, phase) ==
  /\ raised' = [phase |-> phase, error |-> e, valid |-> validGames]
  /\ spc' = "returned"
  /\ sresult' = validGames
  /\ UNCHANGED <<sthrown, page, idx, candidates, validGames, inflight, results>>

\* The catch clause, for the error e raised in the given phase.
Catch(e, phase) ==
  /\ raised' = [phase |-> phase, error |-> e, valid |-> validGames]
  /\ IF Len(validGames) > 0
     THEN /\ spc' = "returned"
          /\ sresult' = partialList(validGames)
          /\ UNCHANGED sthrown
     ELSE /\ spc' = "thrown"
          /\ sthrown' = e
          /\ UNCHANGED sresult
  /\ UNCHANGED <<page, idx, candidates, validGames, inflight, results>>

\* Phase 1, the head of the loop: onProgress, then the fetchSearchPage calls
\* of the pages page..endPage-1 are issued and Promise.all is awaited.
StartGroup ==
  /\ spc = "p1"
  /\ page < MAX_PAGES
  /\ \/ \E e \in Exceptions : Catch(e, 1)
     \/ /\ spc' = "p1wait"
        /\ inflight' = page..(Min(page + PAGE_CONCURRENCY, MAX_PAGES) - 1)
        /\ results' = <<>>
        /\ UNCHANGED <<page, idx, candidates, validGames, sresult, sthrown, raised>>
  /\ UNCHANGED <<relayVars, verifyVars, pageVars, reviewVars, uiVars>>

\* A call of the group that settles pushes its games to candidates at once.
PageSettlesPushing ==
  /\ spc = "p1wait"
  /\ \E p \in inflight : \E r \in PageResponsesFor(p) :
       LET out == fetchSearchPage(r) IN
       IF out.threw THEN Catch("rejected", 1)
       ELSE /\ results' = (p :> <<>>) @@ results
            /\ candidates' = pushNew(candidates, out.found)
            /\ inflight' = inflight \ {p}
            /\ UNCHANGED <<spc, page, idx, validGames, sresult, sthrown, raised>>
  /\ UNCHANGED <<relayVars, verifyVars, pageVars, reviewVars, uiVars>>

\* One fetchSearchPage call of the group settles.
PageSettles ==
  /\ spc = "p1wait"
  /\ \E p \in inflight : \E r \in PageResponsesFor(p) :
       LET out == fetchSearchPage(r) IN
       IF out.threw THEN Catch("rejected", 1)
       ELSE /\ results' = (p :> out.found) @@ results
            /\ inflight' = inflight \ {p}
            /\ UNCHANGED <<spc, page, idx, candidates, validGames, sresult,
                           sthrown, raised>>
  /\ UNCHANGED <<relayVars, verifyVars, pageVars, reviewVars, uiVars>>

\* Promise.all of the group resolves: the new games are pushed to
\* candidates, and the delay before the next group starts.
JoinGroup ==
  /\ spc = "p1wait"
  /\ inflight = {}
  /\ candidates' = pushNew(candidates,
         flat(results, page, Min(page + PAGE_CONCURRENCY, MAX_PAGES) - 1))
  /\ page' = page + PAGE_CONCURRENCY
  /\ spc' = "p1"
  /\ results' = <<>>
  /\ UNCHANGED <<idx, validGames, inflight, sresult, sthrown, raised>>
  /\ UNCHANGED <<relayVars, verifyVars, pageVars, reviewVars, uiVars>>

\* The loop of phase 1 ends: onProgress announces phase 2.
EndPhase1 ==
  /\ spc = "p1"
  /\ page >= MAX_PAGES
  /\ \/ \E e \in Exceptions : Catch(e, 1)
     \/ /\ spc' = "p2"
        /\ idx' = 0
        /\ UNCHANGED <<page, candidates, validGames, inflight, results, sresult,
                       sthrown, raised>>
  /\ UNCHANGED <<relayVars, verifyVars, pageVars, reviewVars, uiVars>>

\* verifyDomesticGame is called for every game of candidates.slice(i), in
\* one chunk.
StartChunkUnchunked ==
  /\ spc = "p2"
  /\ idx < Len(candidates)
  /\ \/ \E e \in Exceptions : Catch(e, 2)
     \/ /\ spc' = "p2wait"
        /\ inflight' = (idx + 1)..Len(candidates)
        /\ results' = <<>>
        /\ UNCHANGED <<page, idx, candidates, validGames, sresult, sthrown, raised>>
  /\ UNCHANGED <<relayVars, verifyVars, pageVars, reviewVars, uiVars>>

\* Phase 2, the head of the loop: onProgress, then verifyDomesticGame is
\* called for every game of candidates.slice(i, i + CHUNK_SIZE).
StartChunk ==
  /\ spc = "p2"
  /\ idx < Len(candidates)
  /\ \/ \E e \in Exceptions : Catch(e, 2)
     \/ /\ spc' = "p2wait"
        /\ inflight' = (idx + 1)..Min(idx + CHUNK_SIZE, Len(candidates))
        /\ results' = <<>>
        /\ UNCHANGED <<page, idx, candidates, validGames, sresult, sthrown, raised>>
  /\ UNCHANGED <<relayVars, verifyVars, pageVars, reviewVars, uiVars>>

\* One verifyDomesticGame call of the chunk settles.
VerifySettles ==
  /\ spc = "p2wait"
  /\ \E k \in inflight :
       LET out == verifyDomesticGame(candidates[k], DetailFor(candidates[k].appid)) IN
       IF out.threw THEN Catch("rejected", 2)
       ELSE /\ results' = (k :> out) @@ results
            /\ inflight' = inflight \ {k}
            /\ UNCHANGED <<spc, page, idx, candidates, validGames, sresult,
                           sthrown, raised>>
  /\ UNCHANGED <<relayVars, verifyVars, pageVars, reviewVars, uiVars>>

\* Promise.all of the chunk resolves: the results that are not null are
\* pushed to validGames, and the delay before the next chunk starts.
JoinChunk ==
  /\ spc = "p2wait"
  /\ inflight = {}
  /\ validGames' = pushValid(validGames, results, idx + 1,
                             Min(idx + CHUNK_SIZE, Len(candidates)))
  /\ idx' = idx + CHUNK_SIZE
  /\ spc' = "p2"
  /\ results' = <<>>
  /\ UNCHANGED <<page, candidates, inflight, sresult, sthrown, raised>>
  /\ UNCHANGED <<relayVars, verifyVars, pageVars, reviewVars, uiVars>>

\* The loop of phase 2 ends: validGames is sorted in place and returned.
Finish ==
  /\ spc = "p2"
  /\ idx >= Len(candidates)
  /\ validGames' = finalList(validGames)
  /\ sresult' = finalList(validGames)
  /\ spc' = "returned"
  /\ UNCHANGED <<page, idx, candidates, inflight, results, sthrown, raised>>
  /\ UNCHANGED <<relayVars, verifyVars, pageVars, reviewVars, uiVars>>

----------------------------------------------------------------------------
(* fetchReviews: the review fetcher.                                       *)

\* const batchSize = 100
batchSize == 100

\* The number of whole batches in limit, and one more.
maxBatchesByHundredsPlusOne(limit) == limit \div batchSize + 1

\* Math.ceil(limit / batchSize), for an integer limit.
maxBatches(limit) == (limit + batchSize - 1) \div batchSize

\* The cursors of the model: '*' is the initial one of the source;
\* "undefined" stands for a page without a cursor field.
Cursors == {"*", "AoJ4", "undefined"}

\* The reviews of a page: the page of request k holding n reviews, each
\* review known by its number.
PageOfReviews(k, n) == [j \in 1..n |-> 1000 * k + j]

\* The lengths of the review lists of the model's pages.
PageLengths == {1, 100}

\* What "await fetchWithProxy(targetUrl)" of request k ends with: the relays
\* are exhausted (threw), or a value: null, a raw text, or an object with
\* its success field, its reviews (when hasReviews) and its cursor.
ReviewsThrew ==
  [threw |-> TRUE, kind |-> "none", success |-> 0, hasReviews |-> FALSE,
   reviews |-> <<>>, cursor |-> "undefined"]
ReviewsValue(kind, success, hasReviews, list, cursor) ==
  [threw |-> FALSE, kind |-> kind, success |-> success,
   hasReviews |-> hasReviews, reviews |-> list, cursor |-> cursor]

ReviewResponses(k) ==
  { ReviewsThrew,
    ReviewsValue("null", 0, FALSE, <<>>, "undefined"),
    ReviewsValue("text", 0, FALSE, <<>>, "undefined"),
    ReviewsValue("obj", 0, TRUE, PageOfReviews(k, 1), "AoJ4"),
    ReviewsValue("obj", 1, FALSE, <<>>, "AoJ4"),
    ReviewsValue("obj", 1, TRUE, <<>>, "AoJ4") }
  \cup { ReviewsValue("obj", 1, TRUE, PageOfReviews(k, n), c) :
           n \in PageLengths, c \in Cursors }

\* The list is cut to the limit of the call: reviews.slice(0, limit).
ReviewsOutCutToLimit(threw, message, value) ==
  [threw |-> threw, message |-> message,
   value |-> SubSeq(value, 1, Min(Len(value), flimit))]

\* What a call of fetchReviews ends with: a list or a thrown Error.
ReviewsOut(threw, message, value) ==
  [threw |-> threw, message |-> message, value |-> value]
NoReviewsOut == ReviewsOut(FALSE, <<>>, <<>>)

\* The test of a page without "data.success !== 1".
pageEndsLoopWhateverSuccess(data) ==
  \/ data.kind # "obj"
  \/ ~data.hasReviews
  \/ data.reviews = <<>>

\* !data || data.success !== 1 || !data.reviews || data.reviews.length === 0
pageEndsLoop(data) ==
  \/ data.kind # "obj"
  \/ data.success # 1
  \/ ~data.hasReviews
  \/ data.reviews = <<>>

\* A catch clause that returns the reviews read so far.
reviewsCatchReturningPartial(read) == ReviewsOut(FALSE, <<>>, read)

\* The catch clause: a new Error with a fixed text (the source's is Chinese:
\* the review data cannot be fetched, check the network or the state of the
\* Steam service).
reviewsCatch(read) ==
  ReviewsOut(TRUE, <<"CANNOT_FETCH_REVIEW_DATA_CHECK_NETWORK_OR_STEAM">>, <<>>)

\* One turn of a loop without "cursor = data.cursor".
RequestPageKeepingCursor ==
  /\ fpc = "loop"
  /\ fi < maxBatches(flimit)
  /\ fsent' = Append(fsent, fcursor)
  /\ \E data \in ReviewResponses(fi + 1) :
       /\ fdata' = Append(fdata, data)
       /\ IF data.threw
          THEN /\ fpc' = "done"
               /\ fresult' = reviewsCatch(freviews)
               /\ UNCHANGED <<fi, freviews>>
          ELSE IF pageEndsLoop(data)
          THEN /\ fpc' = "done"
               /\ fresult' = ReviewsOut(FALSE, <<>>, freviews)
               /\ UNCHANGED <<fi, freviews>>
          ELSE /\ freviews' = freviews \o data.reviews
               /\ IF Len(freviews') >= flimit
                  THEN /\ fpc' = "done"
                       /\ fresult' = ReviewsOut(FALSE, <<>>, freviews')
                       /\ UNCHANGED fi
                  ELSE /\ fi' = fi + 1
                       /\ UNCHANGED <<fpc, fresult>>
  /\ UNCHANGED <<flimit, fcursor>>
  /\ UNCHANGED <<relayVars, verifyVars, pageVars, scanVars, uiVars>>

\* One turn of the loop: i < maxBatches, the relay call with the cursor in
\* its URL settles with data, and the rest of the loop body runs.
RequestPage ==
  /\ fpc = "loop"
  /\ fi < maxBatches(flimit)
  /\ fsent' = Append(fsent, fcursor)
  /\ \E data \in ReviewResponses(fi + 1) :
       /\ fdata' = Append(fdata, data)
       /\ IF data.threw
          THEN /\ fpc' = "done"
               /\ fresult' = reviewsCatch(freviews)
               /\ UNCHANGED <<fi, fcursor, freviews>>
          ELSE IF pageEndsLoop(data)
          THEN /\ fpc' = "done"
               /\ fresult' = ReviewsOut(FALSE, <<>>, freviews)
               /\ UNCHANGED <<fi, fcursor, freviews>>
          ELSE /\ freviews' = freviews \o data.reviews
               /\ fcursor' = data.cursor
               /\ IF Len(freviews') >= flimit
                  THEN /\ fpc' = "done"
                       /\ fresult' = ReviewsOut(FALSE, <<>>, freviews')
                       /\ UNCHANGED fi
                  ELSE /\ fi' = fi + 1
                       /\ UNCHANGED <<fpc, fresult>>
  /\ UNCHANGED flimit
  /\ UNCHANGED <<relayVars, verifyVars, pageVars, scanVars, uiVars>>

\* The loop ends by its condition, and reviews is returned.
LoopEnds ==
  /\ fpc = "loop"
  /\ fi >= maxBatches(flimit)
  /\ fpc' = "done"
  /\ fresult' = ReviewsOut(FALSE, <<>>, freviews)
  /\ UNCHANGED <<flimit, fi, fcursor, freviews, fsent, fdata>>
  /\ UNCHANGED <<relayVars, verifyVars, pageVars, scanVars, uiVars>>

----------------------------------------------------------------------------
(* ClientApp: the state of the component, its handlers and its effect.     *)

\* The values of the date inputs of the model.
T_2025_01_01 == <<50, 48, 50, 53, 45, 48, 49, 45, 48, 49>>  \* "2025-01-01"
T_2025_12_31 == <<50, 48, 50, 53, 45, 49, 50, 45, 51, 49>>  \* "2025-12-31"

\* Date.UTC(y, m - 1, d) / 86400000: the days from 1970-01-01 to the day
\* d of month m of year y.
DaysFromCivil(y, m, d) ==
  LET yy == IF m <= 2 THEN y - 1 ELSE y
      era == yy \div 400
      yoe == yy - era * 400
      mp == IF m > 2 THEN m - 3 ELSE m + 9
      doy == (153 * mp + 2) \div 5 + d - 1
      doe == yoe * 365 + yoe \div 4 - yoe \div 100 + doy
  IN era * 146097 + doe - 719468

\* new Date(s).getTime() / 1000 for the value s of a date input: the first
\* second (UTC) of the day "YYYY-MM-DD", NaN for the empty value.
dateSeconds(s) ==
  IF Len(s) # 10 THEN NaN
  ELSE 86400 * DaysFromCivil(DigitsValue(SubSeq(s, 1, 4)),
                             DigitsValue(SubSeq(s, 6, 7)),
                             DigitsValue(SubSeq(s, 9, 10)))

\* A review, by the fields the component reads; of is the appid of the
\* game the store keeps the review under.
Review(recommendationid, of, playtime_forever, timestamp_created) ==
  [recommendationid |-> recommendationid, of |-> of,
   playtime_forever |-> playtime_forever,
   timestamp_created |-> timestamp_created]

\* isPlaytimeMatch: playtime_forever / 60 within the two bounds.
isPlaytimeMatch(r, f) ==
  /\ r.playtime_forever >= 60 * f.minPlaytimeHours
  /\ r.playtime_forever <= 60 * f.maxPlaytimeHours

\* isDateMatch, with startTs and endTs of the effect; a comparison with NaN
\* is false.
isDateMatch(r, f) ==
  LET startTs == dateSeconds(f.startDate)
      endDay == dateSeconds(f.endDate)
      endTs == IF endDay = NaN THEN NaN ELSE endDay + 86400
  IN /\ startTs # NaN
     /\ endTs # NaN
     /\ r.timestamp_created >= startTs
     /\ r.timestamp_created <= endTs

\* reviews.filter(r => isPlaytimeMatch && isDateMatch)
filterReviews(rs, f) ==
  LET keeps(r) == isPlaytimeMatch(r, f) /\ isDateMatch(r, f)
  IN SelectSeq(rs, keeps)

\* The effect on [reviews, filters]: what it sets filteredReviews to.
filterEffect(rs, f) == IF rs = <<>> THEN <<>> ELSE filterReviews(rs, f)

\* No slice: the whole list.
sampleOfWholeList(rs) == rs

\* filteredReviews.slice(0, 300)
sampleOf(rs) == SubSeq(rs, 1, Min(300, Len(rs)))

\* The games of the model's lists.
UiGames ==
  << Game(10, <<84, 101, 110>>, 1500),  \* "Ten"
     Game(20, <<84, 119, 101, 110, 116, 121>>, 1200) >>  \* "Twenty"

\* The reviews the store keeps for a game.
ReviewsOf(appid) ==
  IF appid = 10
  THEN << Review(1, 10, 300, 1748779200),    \* 5 h, 2025-06-01 12:00:00
          Review(2, 10, 900, 1748779200),    \* 15 h, 2025-06-01 12:00:00
          Review(3, 10, 300, 1767225600) >>  \* 5 h, 2026-01-01 00:00:00
  ELSE << Review(4, 20, 600, 1735689600),    \* 10 h, 2025-01-01 00:00:00
          Review(5, 20, 601, 1767225599),    \* 10 h 1 min, 2025-12-31 23:59:59
          Review(6, 20, 300, 1735689599) >>  \* 5 h, 2024-12-31 23:59:59

\* The filter criteria: INITIAL_FILTERS, whose endDate is the day the page
\* was loaded, and the values the inputs of ReviewFilter are set to.
Filters(min, max, startDate, endDate) ==
  [minPlaytimeHours |-> min, maxPlaytimeHours |-> max,
   startDate |-> startDate, endDate |-> endDate]
MinHours == {0}
MaxHours == {10, 9999}
StartDates == {T_2025_01_01}
EndDates == {T_2025_12_31}
INITIAL_FILTERS == { Filters(0, 9999, T_2025_01_01, d) : d \in EndDates }

\* The values of error and of report; null is the record with set FALSE.
NoError == [set |-> FALSE, message |-> ""]
ErrorOf(message) == [set |-> TRUE, message |-> message]
NoReport == [set |-> FALSE, gameName |-> <<>>]
\* The report the summarizer returns, by the game name it was asked about.
ReportOf(gameName) == [set |-> TRUE, gameName |-> gameName]

\* A call a handler awaits: the operation and what the handler holds of it.
Task(op, game, text, sample) ==
  [op |-> op, game |-> game, text |-> text, sample |-> sample]

\* The texts typed into the search box.
Queries == {<<>>, <<49, 48>>}  \* "", "10"

\* What the calls of the handlers end with.  scanForHighTrafficGames with
\* setProgressMsg as its callback returns a list; searchGames and
\* getGameDetails never throw.
ScanOutcomes == {<<>>, UiGames}
SearchOutcomes == {<<>>, UiGames}
DetailsOutcomes == {NoGame, UiGames[1]}
FetchOutcomes(game) ==
  { ReviewsOut(TRUE, <<"CANNOT_FETCH_REVIEW_DATA_CHECK_NETWORK_OR_STEAM">>, <<>>),
    ReviewsOut(FALSE, <<>>, <<>>),
    ReviewsOut(FALSE, <<>>, ReviewsOf(game.appid)) }
AnalyzeOutcomes(t) ==
  { [threw |-> TRUE, message |-> "AI_ANALYSIS_REQUEST_FAILED_RETRY_LATER",
     report |-> NoReport],
    [threw |-> FALSE, message |-> "",
     report |-> ReportOf(t.game.name)] }

\* The messages scanForHighTrafficGames passes to its callback, which the
\* model does not tell apart.
ProgressMessages == {"SCANNING"}

Starts(t) ==
  /\ BagCardinality(pending) < MaxPending
  /\ pending' = pending (+) SetToBag({t})

Settles(t) ==
  /\ BagIn(t, pending)
  /\ pending' = pending (-) SetToBag({t})

\* handleAutoScan up to its await; the button is in the intro section and
\* disabled while status is 'SCANNING'.
handleAutoScan ==
  /\ selectedGame = NoGame
  /\ status # "SCANNING"
  /\ Starts(Task("scan", NoGame, <<>>, <<>>))
  /\ status' = "SCANNING"
  /\ progressMsg' = "CONNECTING"
  /\ error' = NoError
  /\ searchResults' = <<>>
  /\ scannedGames' = <<>>
  /\ UNCHANGED <<query, selectedGame, reviews, filteredReviews, filters, report>>
  /\ UNCHANGED <<relayVars, verifyVars, pageVars, scanVars, reviewVars>>

\* (msg) => setProgressMsg(msg), called by a scan in flight.
ScanProgress ==
  /\ \E t \in BagToSet(pending) : t.op = "scan"
  /\ progressMsg' \in ProgressMessages
  /\ UNCHANGED <<query, scannedGames, searchResults, selectedGame, reviews,
                 filteredReviews, filters, status, error, report, pending>>
  /\ UNCHANGED <<relayVars, verifyVars, pageVars, scanVars, reviewVars>>

\* handleAutoScan from its await on.
ScanSettles ==
  /\ \E t \in BagToSet(pending) :
       /\ t.op = "scan"
       /\ Settles(t)
       /\ \E games \in ScanOutcomes :
            IF games = <<>>
            THEN /\ error' = ErrorOf("NO_MATCHING_GAMES_SCANNED")
                 /\ UNCHANGED scannedGames
            ELSE /\ scannedGames' = games
                 /\ UNCHANGED error
  /\ status' = "IDLE"
  /\ UNCHANGED <<query, searchResults, selectedGame, reviews, filteredReviews,
                 filters, progressMsg, report>>
  /\ UNCHANGED <<relayVars, verifyVars, pageVars, scanVars, reviewVars>>

\* onChange of the search box, which is shown while no game is selected and
\* scannedGames is empty.
setQuery ==
  /\ selectedGame = NoGame
  /\ scannedGames = <<>>
  /\ query' \in Queries
  /\ UNCHANGED <<scannedGames, searchResults, selectedGame, reviews,
                 filteredReviews, filters, status, progressMsg, error, report,
                 pending>>
  /\ UNCHANGED <<relayVars, verifyVars, pageVars, scanVars, reviewVars>>

\* handleSearch up to its await; the submit button is disabled while status
\* is 'SEARCHING', and an empty query returns at once.
handleSearch ==
  /\ selectedGame = NoGame
  /\ scannedGames = <<>>
  /\ status # "SEARCHING"
  /\ Trim(query) # <<>>
  /\ Starts(Task("search", NoGame, query, <<>>))
  /\ status' = "SEARCHING"
  /\ error' = NoError
  /\ selectedGame' = NoGame
  /\ report' = NoReport
  /\ scannedGames' = <<>>
  /\ UNCHANGED <<query, searchResults, reviews, filteredReviews, filters,
                 progressMsg>>
  /\ UNCHANGED <<relayVars, verifyVars, pageVars, scanVars, reviewVars>>

\* handleSearch from its await on.
SearchSettles ==
  /\ \E t \in BagToSet(pending) :
       /\ t.op = "search"
       /\ Settles(t)
  /\ searchResults' \in SearchOutcomes
  /\ status' = "IDLE"
  /\ UNCHANGED <<query, scannedGames, selectedGame, reviews, filteredReviews,
                 filters, progressMsg, error, report>>
  /\ UNCHANGED <<relayVars, verifyVars, pageVars, scanVars, reviewVars>>

\* handleDirectId up to its await; it returns at once when the query does
\* not start with a number.
handleDirectId ==
  /\ selectedGame = NoGame
  /\ scannedGames = <<>>
  /\ ParseInt(query) # NaN
  /\ Starts(Task("details", NoGame, query, <<>>))
  /\ status' = "SEARCHING"
  /\ UNCHANGED <<query, scannedGames, searchResults, selectedGame, reviews,
                 filteredReviews, filters, progressMsg, error, report>>
  /\ UNCHANGED <<relayVars, verifyVars, pageVars, scanVars, reviewVars>>

\* handleDirectId from its await on.
DetailsSettle ==
  /\ \E t \in BagToSet(pending) :
       /\ t.op = "details"
       /\ Settles(t)
  /\ \E details \in DetailsOutcomes :
       IF details # NoGame
       THEN /\ searchResults' = <<details>>
            /\ UNCHANGED error
       ELSE /\ error' = ErrorOf("NO_GAME_FOR_THIS_APP_ID")
            /\ UNCHANGED searchResults
  /\ status' = "IDLE"
  /\ UNCHANGED <<query, scannedGames, selectedGame, reviews, filteredReviews,
                 filters, progressMsg, report>>
  /\ UNCHANGED <<relayVars, verifyVars, pageVars, scanVars, reviewVars>>

\* The games the intro section lists: the scanned games, or the search
\* results while there is no scanned game.
listed ==
  IF scannedGames # <<>> THEN scannedGames ELSE searchResults

\* handleSelectGame(game) up to its await, for a game of the lists, which
\* are shown while no game is selected.
handleSelectGame ==
  /\ selectedGame = NoGame
  /\ \E n \in 1..Len(listed) :
       /\ Starts(Task("reviews", listed[n], <<>>, <<>>))
       /\ selectedGame' = listed[n]
  /\ searchResults' = <<>>
  /\ scannedGames' = <<>>
  /\ query' = <<>>
  /\ status' = "FETCHING_REVIEWS"
  /\ error' = NoError
  /\ UNCHANGED <<reviews, filteredReviews, filters, progressMsg, report>>
  /\ UNCHANGED <<relayVars, verifyVars, pageVars, scanVars, reviewVars>>

\* handleSelectGame from its await on, and the effect when reviews changes.
ReviewsSettle ==
  /\ \E t \in BagToSet(pending) :
       /\ t.op = "reviews"
       /\ Settles(t)
       /\ \E out \in FetchOutcomes(t.game) :
            /\ IF out.threw
               THEN /\ error' = ErrorOf(out.message[1])
                    /\ UNCHANGED reviews
               ELSE IF out.value = <<>>
               THEN /\ error' = ErrorOf("NO_REVIEWS_FETCHED")
                    /\ UNCHANGED reviews
               ELSE /\ reviews' = out.value
                    /\ UNCHANGED error
  /\ status' = "IDLE"
  /\ filteredReviews' = filterEffect(reviews', filters)
  /\ UNCHANGED <<query, scannedGames, searchResults, selectedGame, filters,
                 progressMsg, report>>
  /\ UNCHANGED <<relayVars, verifyVars, pageVars, scanVars, reviewVars>>

\* setFilters({ ...filters, field: value }) by an input of ReviewFilter,
\* which is shown for a selected game unless status is 'FETCHING_REVIEWS';
\* and the effect when filters changes.
setFilters ==
  /\ selectedGame # NoGame
  /\ status # "FETCHING_REVIEWS"
  /\ filters' \in
       { [filters EXCEPT !.minPlaytimeHours = v] : v \in MinHours }
       \cup { [filters EXCEPT !.maxPlaytimeHours = v] : v \in MaxHours }
       \cup { [filters EXCEPT !.startDate = v] : v \in StartDates }
       \cup { [filters EXCEPT !.endDate = v] : v \in EndDates }
  /\ filteredReviews' = filterEffect(reviews, filters')
  /\ UNCHANGED <<query, scannedGames, searchResults, selectedGame, reviews,
                 status, progressMsg, error, report, pending>>
  /\ UNCHANGED <<relayVars, verifyVars, pageVars, scanVars, reviewVars>>

\* handleAnalyze up to its await; the button is shown for a selected game
\* unless status is 'FETCHING_REVIEWS', and disabled while filteredReviews
\* is empty or status is 'ANALYZING'.
handleAnalyze ==
  /\ selectedGame # NoGame
  /\ filteredReviews # <<>>
  /\ status # "FETCHING_REVIEWS"
  /\ status # "ANALYZING"
  /\ Starts(Task("analyze", selectedGame, <<>>, sampleOf(filteredReviews)))
  /\ status' = "ANALYZING"
  /\ error' = NoError
  /\ UNCHANGED <<query, scannedGames, searchResults, selectedGame, reviews,
                 filteredReviews, filters, progressMsg, report>>
  /\ UNCHANGED <<relayVars, verifyVars, pageVars, scanVars, reviewVars>>

\* handleAnalyze from its await on.
AnalysisSettles ==
  /\ \E t \in BagToSet(pending) :
       /\ t.op = "analyze"
       /\ Settles(t)
       /\ \E out \in AnalyzeOutcomes(t) :
            /\ IF out.threw
               THEN /\ error' = ErrorOf(out.message)
                    /\ status' = "IDLE"
                    /\ UNCHANGED report
               ELSE /\ report' = out.report
                    /\ status' = "DONE"
                    /\ UNCHANGED error
  /\ UNCHANGED <<query, scannedGames, searchResults, selectedGame, reviews,
                 filteredReviews, filters, progressMsg>>
  /\ UNCHANGED <<relayVars, verifyVars, pageVars, scanVars, reviewVars>>

\* handleReset, by the title of the page or the back button; and the effect
\* when reviews changes.
handleReset ==
  /\ selectedGame' = NoGame
  /\ reviews' = <<>>
  /\ report' = NoReport
  /\ status' = "IDLE"
  /\ error' = NoError
  /\ scannedGames' = <<>>
  /\ filteredReviews' = filterEffect(reviews', filters)
  /\ UNCHANGED <<query, searchResults, filters, progressMsg, pending>>
  /\ UNCHANGED <<relayVars, verifyVars, pageVars, scanVars, reviewVars>>

----------------------------------------------------------------------------
(* The specifications: one per operation that is followed step by step.    *)

\* No call of verifyDomesticGame is followed.
VerifyIdle ==
  /\ vpc = "idle"
  /\ vgame = NoGame
  /\ vresponse = DetailThrew
  /\ vresult = NullOut
  /\ vfirst = NullOut

\* No call of fetchSearchPage is followed.
PageIdle ==
  /\ ppc = "idle"
  /\ presponse = PageThrew
  /\ presult = PageOut(FALSE, <<>>)

\* No call of scanForHighTrafficGames is followed.
NoRaise == [phase |-> 0, error |-> "", valid |-> <<>>]

ScanIdle ==
  /\ spc = "idle"
  /\ page = 0
  /\ idx = 0
  /\ candidates = <<>>
  /\ validGames = <<>>
  /\ inflight = {}
  /\ results = <<>>
  /\ sresult = <<>>
  /\ sthrown = ""
  /\ raised = NoRaise

\* No call of fetchReviews is followed.
ReviewsIdle ==
  /\ fpc = "idle"
  /\ flimit = 0
  /\ fi = 0
  /\ fcursor = "*"
  /\ freviews = <<>>
  /\ fsent = <<>>
  /\ fdata = <<>>
  /\ fresult = NoReviewsOut

\* ClientApp is not mounted.
ClientIdle ==
  /\ query = <<>>
  /\ scannedGames = <<>>
  /\ searchResults = <<>>
  /\ selectedGame = NoGame
  /\ reviews = <<>>
  /\ filteredReviews = <<>>
  /\ filters = Filters(0, 9999, T_2025_01_01, T_2025_12_31)
  /\ status = "IDLE"
  /\ progressMsg = ""
  /\ error = NoError
  /\ report = NoReport
  /\ pending = EmptyBag

\* One call of fetchWithProxy.
RelayInit ==
  /\ rpc = "start"
  /\ errors = <<>>
  /\ attempts = <<>>
  /\ seen = <<>>
  /\ rresult = NoResult
  /\ rthrown = <<>>
  /\ VerifyIdle
  /\ PageIdle
  /\ ScanIdle
  /\ ReviewsIdle
  /\ ClientIdle

RelayNext == Call \/ Strategy1 \/ Strategy2 \/ Strategy3

SpecRelay == RelayInit /\ [][RelayNext]_vars

\* One call of verifyDomesticGame, for every game and detail response of
\* the pools.
VerifyInit ==
  /\ vpc = "call"
  /\ vgame \in { Game(10, <<80, 111, 114, 116, 97, 108>>, 1500), Game(20, <<80, 111, 114, 116, 97, 108>>, 1500) }
  /\ vresponse \in DetailResponses
  /\ vresult = NullOut
  /\ vfirst = NullOut
  /\ RelayIdle
  /\ PageIdle
  /\ ScanIdle
  /\ ReviewsIdle
  /\ ClientIdle

VerifyNext == Verify \/ VerifyAgain

SpecVerify == VerifyInit /\ [][VerifyNext]_vars

\* One call of fetchSearchPage, for every response of the pool.
PageInit ==
  /\ ppc = "call"
  /\ presponse \in PageResponses
  /\ presult = PageOut(FALSE, <<>>)
  /\ RelayIdle
  /\ VerifyIdle
  /\ ScanIdle
  /\ ReviewsIdle
  /\ ClientIdle

PageNext == ScanPage

SpecPage == PageInit /\ [][PageNext]_vars

\* One call of scanForHighTrafficGames with a progress callback.
ScanInit ==
  /\ spc = "p1"
  /\ page = 0
  /\ idx = 0
  /\ candidates = <<>>
  /\ validGames = <<>>
  /\ inflight = {}
  /\ results = <<>>
  /\ sresult = <<>>
  /\ sthrown = ""
  /\ raised = NoRaise
  /\ RelayIdle
  /\ VerifyIdle
  /\ PageIdle
  /\ ReviewsIdle
  /\ ClientIdle

ScanNext ==
  \/ StartGroup \/ PageSettles \/ JoinGroup \/ EndPhase1
  \/ StartChunk \/ VerifySettles \/ JoinChunk \/ Finish

SpecScan == ScanInit /\ [][ScanNext]_vars

\* The limits of the model's calls of fetchReviews.
Limits == {0, 1, 100, 101, 250}

\* One call of fetchReviews(appId, limit); every relay call it awaits
\* settles.
ReviewsInit ==
  /\ fpc = "loop"
  /\ flimit \in Limits
  /\ fi = 0
  /\ fcursor = "*"
  /\ freviews = <<>>
  /\ fsent = <<>>
  /\ fdata = <<>>
  /\ fresult = NoReviewsOut
  /\ RelayIdle
  /\ VerifyIdle
  /\ PageIdle
  /\ ScanIdle
  /\ ClientIdle

ReviewsNext == RequestPage \/ LoopEnds

SpecReviews == ReviewsInit /\ [][ReviewsNext]_vars /\ WF_vars(ReviewsNext)

\* ClientApp from its first render on: the user's actions and the
\* continuations of the handlers, in any order.
ClientInit ==
  /\ query = <<>>
  /\ scannedGames = <<>>
  /\ searchResults = <<>>
  /\ selectedGame = NoGame
  /\ reviews = <<>>
  /\ filteredReviews = <<>>
  /\ filters \in INITIAL_FILTERS
  /\ status = "IDLE"
  /\ progressMsg = ""
  /\ error = NoError
  /\ report = NoReport
  /\ pending = EmptyBag
  /\ RelayIdle
  /\ VerifyIdle
  /\ PageIdle
  /\ ScanIdle
  /\ ReviewsIdle

ClientNext ==
  \/ handleAutoScan \/ ScanProgress \/ ScanSettles
  \/ setQuery \/ handleSearch \/ SearchSettles
  \/ handleDirectId \/ DetailsSettle
  \/ handleSelectGame \/ ReviewsSettle
  \/ setFilters \/ handleAnalyze \/ AnalysisSettles
  \/ handleReset

SpecClient == ClientInit /\ [][ClientNext]_vars

\* A long list of reviews fetched for a game: every third review has a
\* playtime of 15 h, the others of 5 h, all created 2025-06-01 12:00:00.
ManyReviews(appid, n) ==
  [j \in 1..n |->
     Review(j, appid, IF j % 3 = 0 THEN 900 ELSE 300, 1748779200)]

\* The lengths of the lists of the dashboard's model.
FetchedLengths == {2, 300, 301, 450}

\* The dashboard of a selected game once its reviews were fetched: the
\* filters, the analysis and the reset.
SampleInit ==
  /\ query = <<>>
  /\ scannedGames = <<>>
  /\ searchResults = <<>>
  /\ \E n \in 1..Len(UiGames) : selectedGame = UiGames[n]
  /\ \E n \in FetchedLengths : reviews = ManyReviews(selectedGame.appid, n)
  /\ filters \in INITIAL_FILTERS
  /\ filteredReviews = filterEffect(reviews, filters)
  /\ status = "IDLE"
  /\ progressMsg = ""
  /\ error = NoError
  /\ report = NoReport
  /\ pending = EmptyBag
  /\ RelayIdle
  /\ VerifyIdle
  /\ PageIdle
  /\ ScanIdle
  /\ ReviewsIdle

SampleNext == setFilters \/ handleAnalyze \/ AnalysisSettles \/ handleReset

SpecSample == SampleInit /\ [][SampleNext]_vars

----------------------------------------------------------------------------
(* Claims about fetchWithProxy.                                            *)

\* C4 (as stated): when all three strategies have failed, the message of the
\* thrown error contains the recorded failure reason of each strategy.
C4_ThrownMessageHoldsReasons ==
  rpc = "thrown" =>
    /\ Len(errors) = 3
    /\ \A i \in 1..3 : Includes(rthrown, errors[i])

\* C4 (amended): when all three strategies have failed, the three reasons
\* are recorded in strategy order in errors, and the thrown error carries
\* the fixed message, which contains none of them.
C4_ReasonsRecordedMessageFixed ==
  rpc = "thrown" =>
    /\ Len(errors) = 3
    /\ \A i \in 1..3 :
         /\ SubSeq(errors[i], 1, 2) = <<RelayNames[i], ": ">>
         /\ Len(errors[i]) > 2
         /\ ~Includes(rthrown, errors[i])
    /\ rthrown = <<"NETWORK_FAILED_ALL_PROXIES_UNRESPONSIVE">>

C4_Witness ==
  /\ rpc = "thrown"
  /\ Len(errors) = 3
  /\ errors[1] = <<"AllOrigins", ": ", "Upstream error: ", "500">>
  /\ errors[2] = <<"CorsProxy", ": ", "Status ", "500">>
  /\ errors[3] = <<"CodeTabs", ": ", "Failed to fetch">>

\* A response that is HTTP ok and carries a JSON body.
OkJson(r) == ~r.rejects /\ r.ok /\ r.body.valid /\ r.body.denotes.k = "obj"

\* C5: the relays are attempted in the order AllOrigins, CorsProxy,
\* CodeTabs, each at most once; relay k+1 is attempted only after relay k
\* has failed; the first relay to succeed gives the returned value and no
\* later relay is attempted; the call throws only if all three failed; with
\* relay 1 answering HTTP 500 and relay 2 valid JSON, relay 2's parsed body
\* is returned without error.
C5_OrderedFallback ==
  /\ Len(attempts) <= 3
  /\ attempts = SubSeq(RelayNames, 1, Len(attempts))
  /\ Len(seen) <= Len(attempts)
  /\ \A k \in 1..Len(attempts) :
       k > 1 => /\ Len(errors) >= k - 1
                /\ errors[k - 1][1] = RelayNames[k - 1]
                /\ Len(seen) >= k - 1
  /\ rpc = "returned" =>
       /\ Len(seen) = Len(attempts)
       /\ Len(errors) = Len(attempts) - 1
       /\ rresult.type # "none"
       /\ rthrown = <<>>
  /\ rpc # "returned" => rresult = NoResult
  /\ (rpc = "thrown" \/ rthrown # <<>>) =>
       /\ rpc = "thrown" /\ rthrown # <<>>
       /\ Len(errors) = 3 /\ Len(seen) = 3 /\ rresult = NoResult
  /\ (Len(seen) >= 2 /\ seen[1].status = 500 /\ OkJson(seen[2])) =>
       /\ rpc = "returned"
       /\ rresult = Returned("parsed", "B2")
       /\ Len(attempts) = 2

C5_Witness ==
  /\ rpc = "returned"
  /\ Len(seen) = 2
  /\ seen[1].status = 500
  /\ OkJson(seen[2])
  /\ rresult = Returned("parsed", "B2")

\* The payload relay k's response carries once its envelope is taken off:
\* data.contents for AllOrigins (an envelope whose upstream status is
\* accepted), the body itself for the two direct relays.
HasPayload(k, r) ==
  /\ ~r.rejects /\ r.ok
  /\ k = 1 => /\ r.body.valid /\ r.body.denotes.k = "obj"
              /\ r.body.denotes.http_code \in {0, 200, 404}
              /\ r.body.denotes.contents.present

PayloadIsJson(k, r) ==
  IF k = 1 THEN r.body.denotes.contents.valid ELSE r.body.valid

\* C6 (as stated): whichever relay answers HTTP ok, the call returns the
\* parsed structure when the payload is JSON and the raw text when it is
\* not; a payload that is no JSON is never recorded as that relay's failure.
C6_NonJsonPayloadReturnedRaw ==
  \A k \in 1..Len(seen) :
    HasPayload(k, seen[k]) =>
      /\ rpc = "returned"
      /\ Len(errors) = k - 1
      /\ rresult.type = (IF PayloadIsJson(k, seen[k]) THEN "parsed" ELSE "text")

\* The first relay answered HTTP ok with an envelope that holds contents.
FirstAnsweredEnvelope ==
  /\ Len(seen) >= 1
  /\ ~seen[1].rejects /\ seen[1].ok /\ seen[1].body.valid
  /\ seen[1].body.denotes.k = "obj"
  /\ seen[1].body.denotes.contents.present

\* The envelope reports an upstream status that is neither 2xx nor 404.
ReportsFailingStatus(env) ==
  /\ env.http_code # 0
  /\ env.http_code \notin 200..299
  /\ env.http_code # 404

\* C22: the first relay records a failure and the second relay is tried
\* exactly when the envelope reports an upstream status that is not 2xx and
\* not 404; otherwise the call returns what the envelope holds.
C22_EnvelopeFailsIffNon2xxNot404 ==
  FirstAnsweredEnvelope =>
    IF ReportsFailingStatus(seen[1].body.denotes)
    THEN Len(errors) >= 1 /\ Len(attempts) >= 2
    ELSE rpc = "returned" /\ errors = <<>> /\ attempts = <<RelayNames[1]>>

----------------------------------------------------------------------------
(* Claims about verifyDomesticGame.                                        *)

\* The response holds an entry for the game's appid whose success flag is set.
EntryReportsSuccess(game, response) ==
  /\ ~response.threw
  /\ response.kind = "obj"
  /\ response.key = game.appid
  /\ response.success

\* C9: verifyDomesticGame never throws; it resolves to null when the relay
\* fetch fails, when the response has no entry for the appid or when the
\* entry's success flag is false; otherwise to null or to the game annotated
\* with score, developer and publishers.
C9_VerifyNeverThrows ==
  vpc = "done" =>
    /\ ~vresult.threw
    /\ ~EntryReportsSuccess(vgame, vresponse) => vresult = NullOut
    /\ ~vresult.null =>
         /\ vresponse.hasData
         /\ vresult.game.appid = vgame.appid
         /\ vresult.game.total_reviews = vgame.total_reviews
         /\ vresult.game.hasScore
         /\ vresult.game.name = vresponse.data.name
         /\ vresult.game.developer = JoinComma(vresponse.data.developers)
         /\ vresult.game.publishers = vresponse.data.publishers

C9_Witness ==
  /\ vpc = "done"
  /\ vresponse.threw
  /\ vresult = NullOut

\* The sum of the weighted signals of the specification's table: the
\* conditions as Score tests them, but for the last row, whose "support email
\* is not target-region" is the negation of the row that grants the +50.
TableSum(data) ==
  LET lowerDevs == LowerAll(data.developers)
      lowerPubs == LowerAll(data.publishers)
      email == ToLowerCase(data.email)
      devSignal == \/ someHasChineseChars(data.developers)
                   \/ someIsKnownEntity(lowerDevs)
  IN  (IF hasChineseChars(data.name) THEN 15 ELSE 0)
    + (IF hasCulturalKeyword(ToLowerCase(data.name)) THEN 25 ELSE 0)
    + (IF someHasChineseChars(data.developers) THEN 60 ELSE 0)
    + (IF someHasChineseChars(data.publishers) THEN 40 ELSE 0)
    + (IF someIsKnownEntity(lowerDevs) THEN 50 ELSE 0)
    + (IF someIsKnownEntity(lowerPubs) THEN 35 ELSE 0)
    + (IF emailSignal(email) THEN 50 ELSE 0)
    + (IF urlSignal(ToLowerCase(data.url)) THEN 40 ELSE 0)
    + (IF hasChineseAudio(data.langs) THEN 25 ELSE 0)
    + (IF hasChineseAudio(data.langs) /\ ~hasEnglishAudio(data.langs)
       THEN 25 ELSE 0)
    - (IF someIsForeignGiant(lowerDevs) THEN 200 ELSE 0)
    - (IF someIsForeignGiant(lowerPubs) /\ ~devSignal /\ ~emailSignal(email)
       THEN 100 ELSE 0)

\* C10 (as stated): for a detail payload whose name is not on the VIP list,
\* verifyDomesticGame accepts if and only if the sum of the table's weighted
\* signals is at least 25, and the returned score is that sum.
C10_AcceptsIffTableSum ==
  (/\ vpc = "done"
   /\ EntryReportsSuccess(vgame, vresponse)
   /\ vresponse.hasData
   /\ ~isVip(ToLowerCase(vresponse.data.name))) =>
     /\ ~vresult.threw
     /\ ~vresult.null <=> TableSum(vresponse.data) >= 25
     /\ ~vresult.null => vresult.game.score = TableSum(vresponse.data)

\* verifyDomesticGame got the detail object of its game.
GotDetails ==
  /\ vpc = "done"
  /\ EntryReportsSuccess(vgame, vresponse)
  /\ vresponse.hasData

\* The name holds an entry of the VIP allow-list, whatever the case of either.
NameOnVipList(name) ==
  \E n \in 1..Len(VIP_WHITELIST) :
    Includes(ToLowerCase(name), ToLowerCase(VIP_WHITELIST[n]))

\* Some name of the list holds, whatever its case, an entry of the list of
\* foreign studios.
NamesForeignStudio(names) ==
  \E i \in 1..Len(names) : \E n \in 1..Len(knownForeignGiants) :
    Includes(ToLowerCase(names[i]), knownForeignGiants[n])

\* Some name of the list holds a character of U+4E00..U+9FA5.
NamesChineseStudio(names) ==
  \E i \in 1..Len(names) : \E j \in 1..Len(names[i]) :
    names[i][j] \in 19968..40869

\* C11: a name that holds a VIP allow-list entry (case-insensitive substring)
\* is accepted with score 999 whatever the other signals are, a developer
\* on the list of foreign studios included.
C11_VipAlwaysAccepted ==
  (GotDetails /\ NameOnVipList(vresponse.data.name)) =>
    /\ ~vresult.threw
    /\ ~vresult.null
    /\ vresult.game.hasScore
    /\ vresult.game.score = 999

C11_Witness ==
  /\ GotDetails
  /\ NameOnVipList(vresponse.data.name)
  /\ NamesForeignStudio(vresponse.data.developers)
  /\ ~vresult.null
  /\ vresult.game.score = 999

\* No signal of the table other than the two title signals and the
\* penalties holds of the detail object.
OnlyTitleSignals(data) ==
  /\ ~NamesChineseStudio(data.developers)
  /\ ~NamesChineseStudio(data.publishers)
  /\ ~someIsKnownEntity(LowerAll(data.developers))
  /\ ~someIsKnownEntity(LowerAll(data.publishers))
  /\ ~emailSignal(ToLowerCase(data.email))
  /\ ~urlSignal(ToLowerCase(data.url))
  /\ ~hasChineseAudio(data.langs)

\* C12 (as stated): a developer on the list of foreign studios and no
\* positive signal but title signals: verifyDomesticGame returns null, also
\* when the title holds an entry of the cultural keywords.
C12_ForeignDeveloperRejected ==
  (/\ GotDetails
   /\ NamesForeignStudio(vresponse.data.developers)
   /\ OnlyTitleSignals(vresponse.data)) => vresult = NullOut

\* C12 (amended): the same for a name that holds no VIP allow-list entry.
C12_ForeignDeveloperRejectedUnlessVip ==
  (/\ GotDetails
   /\ NamesForeignStudio(vresponse.data.developers)
   /\ OnlyTitleSignals(vresponse.data)
   /\ ~NameOnVipList(vresponse.data.name)) => vresult = NullOut

C12_Witness ==
  /\ GotDetails
  /\ NamesForeignStudio(vresponse.data.developers)
  /\ OnlyTitleSignals(vresponse.data)
  /\ ~NameOnVipList(vresponse.data.name)
  /\ hasCulturalKeyword(ToLowerCase(vresponse.data.name))
  /\ vresult = NullOut

\* C13: some developer name holds a Chinese character and no developer and
\* no publisher is on the list of foreign studios: the game is accepted with
\* a score of at least 60.
C13_ChineseDeveloperAccepted ==
  (/\ GotDetails
   /\ NamesChineseStudio(vresponse.data.developers)
   /\ ~NamesForeignStudio(vresponse.data.developers)
   /\ ~NamesForeignStudio(vresponse.data.publishers)) =>
     /\ ~vresult.threw
     /\ ~vresult.null
     /\ vresult.game.hasScore
     /\ vresult.game.score >= 60

C13_Witness ==
  /\ GotDetails
  /\ NamesChineseStudio(vresponse.data.developers)
  /\ ~NamesForeignStudio(vresponse.data.publishers)
  /\ ~vresult.null
  /\ vresult.game.score = 60

PenaltyAsClaimed(data) ==
  /\ someIsForeignGiant(LowerAll(data.publishers))
  /\ ~someHasChineseChars(data.developers)
  /\ ~someIsKnownEntity(LowerAll(data.developers))
  /\ ~emailSignal(ToLowerCase(data.email))

\* C23: the score has the -100 of the publisher exactly when
\* PenaltyAsClaimed holds, so the decision is the one of the sum with the
\* penalty so applied; and a payload whose email grants the +50, and whose
\* developers are no foreign studio, loses nothing and is accepted with a
\* score of 50 or more.
C23_PenaltyIffNoRegionSignal ==
  (GotDetails /\ ~isVip(ToLowerCase(vresponse.data.name))) =>
    LET data == vresponse.data
        sum == ScoreNoDeveloperPenalty(data)
                 + (IF publisherPenalty(data) THEN 100 ELSE 0)
                 - (IF someIsForeignGiant(LowerAll(data.developers)) THEN 200 ELSE 0)
                 - (IF PenaltyAsClaimed(data) THEN 100 ELSE 0)
    IN /\ ~vresult.null <=> sum >= 25
       /\ ~vresult.null => vresult.game.score = sum
       /\ (/\ emailSignal(ToLowerCase(data.email))
           /\ ~someIsForeignGiant(LowerAll(data.developers))) =>
             /\ ~vresult.null
             /\ vresult.game.score >= 50

----------------------------------------------------------------------------
(* Claims about fetchSearchPage.                                           *)

\* The rows of the response that pass the three tests of the scanner: an
\* appid attribute, a release year 2025..2099, a review count above 1000.
KeptRows(rows) == { n \in 1..Len(rows) : rowKept(rows[n]) }

\* C8: fetchSearchPage never throws; whatever the relay call ends with (an
\* error, null, a payload without results_html, a document without rows,
\* malformed rows) it resolves to a list, which is empty whenever the relay
\* call fails, and holds one game per row that passes the tests otherwise.
C8_SearchPageNeverThrows ==
  ppc = "done" =>
    /\ ~presult.threw
    /\ presponse.threw => presult.found = <<>>
    /\ (presponse.kind # "obj" \/ ~presponse.hasHtml) => presult.found = <<>>
    /\ Len(presult.found) = Cardinality(KeptRows(presponse.rows))
    /\ Len(presult.found) <= Len(presponse.rows)

C8_Witness ==
  /\ ppc = "done"
  /\ presponse.threw
  /\ presult = PageOut(FALSE, <<>>)

\* The relay call of fetchSearchPage delivered a document of result rows.
GotRows ==
  /\ ppc = "done"
  /\ ~presponse.threw
  /\ presponse.kind = "obj"
  /\ presponse.hasHtml

\* The review count a row states: the number before the label of its
\* tooltip, 0 when the tooltip is missing or states no number.
StatedCount(row) ==
  LET count == reviewCount(tooltipOf(row)) IN
  IF count = NaN THEN 0 ELSE count

\* The rows that have an appid, pass the date test and state more than 1000
\* reviews.
RowsAboveThousand(rows) ==
  { n \in 1..Len(rows) :
      /\ rows[n].appidStr # <<>>
      /\ yearMatch(Trim(rows[n].released))
      /\ StatedCount(rows[n]) > 1000 }

\* C14 (as stated): fetchSearchPage keeps a row only if its review count is
\* above 1000; a row that states exactly 1,000 is dropped, one that states
\* 1,001 is kept, and a row whose tooltip is missing or states no number
\* counts as 0 and is dropped.
C14_KeptOnlyAboveThousand ==
  GotRows =>
    /\ \A i \in 1..Len(presult.found) :
         /\ presult.found[i].total_reviews # NaN
         /\ presult.found[i].total_reviews > 1000
    /\ Len(presult.found) = Cardinality(RowsAboveThousand(presponse.rows))

\* The years a release label names: the values of its runs of exactly four
\* digits ("21 Dec, 2099" names 2099, "Q1 2026" names 2026, "Coming soon"
\* names none).
LabelYears(label) ==
  { DigitsValue(SubSeq(label, i, i + 3)) :
      i \in { k \in 1..(Len(label) - 3) :
                /\ \A m \in k..(k + 3) : IsDigit(label[m])
                /\ k = 1 \/ ~IsDigit(label[k - 1])
                /\ k + 3 = Len(label) \/ ~IsDigit(label[k + 4]) } }

\* The label names a year of 2025..2099.
NamesScanYear(label) == \E y \in LabelYears(label) : y >= 2025 /\ y <= 2099

\* The rows that have an appid, name a year of 2025..2099 and pass the
\* review count test.
RowsOfScanYears(rows) ==
  { n \in 1..Len(rows) :
      /\ rows[n].appidStr # <<>>
      /\ NamesScanYear(rows[n].released)
      /\ ~AtMostThousand(reviewCount(tooltipOf(rows[n]))) }

\* C15: fetchSearchPage keeps a row only if its release label names a year
\* of 2025..2099: "2024" and "2100" are dropped, "2025", "Q1 2026" and
\* "21 Dec, 2099" pass the date test, and no label of an earlier year passes.
C15_KeptOnlyScanYears ==
  GotRows =>
    /\ Len(presult.found) = Cardinality(RowsOfScanYears(presponse.rows))
    /\ \A n \in 1..Len(presponse.rows) :
         LET label == presponse.rows[n].released IN
         /\ rowKept(presponse.rows[n]) => NamesScanYear(label)
         /\ (LabelYears(label) # {} /\ \A y \in LabelYears(label) : y < 2025)
              => ~yearMatch(Trim(label))
         /\ label = <<50, 48, 50, 52>> => ~yearMatch(Trim(label))
         /\ label = <<50, 49, 48, 48>> => ~yearMatch(Trim(label))
         /\ label = <<50, 48, 50, 53>> => yearMatch(Trim(label))
         /\ label = <<81, 49, 32, 50, 48, 50, 54>> => yearMatch(Trim(label))
         /\ label = <<50, 49, 32, 68, 101, 99, 44, 32, 50, 48, 57, 57>>
              => yearMatch(Trim(label))

\* A page of two rows, labelled "2024" and "Q1 2026", of which the second
\* alone was kept.
C15_Witness ==
  /\ GotRows
  /\ Len(presponse.rows) = 2
  /\ presponse.rows[1].released = <<50, 48, 50, 52>>
  /\ presponse.rows[2].released = <<81, 49, 32, 50, 48, 50, 54>>
  /\ Len(presult.found) = 1
  /\ presult.found[1].appid = 20

----------------------------------------------------------------------------
(* Claims about scanForHighTrafficGames.                                   *)

\* The list is ordered non-increasing by total_reviews.
NonIncreasing(gs) ==
  \A n \in 1..(Len(gs) - 1) :
    /\ gs[n].total_reviews # NaN
    /\ gs[n + 1].total_reviews # NaN
    /\ gs[n].total_reviews >= gs[n + 1].total_reviews

\* C1 (as stated): every list scanForHighTrafficGames returns, after the
\* try statement or from its catch clause, is ordered non-increasing by
\* total_reviews.
C1_ReturnedListSorted == spc = "returned" => NonIncreasing(sresult)

\* C2: no two elements of a list scanForHighTrafficGames returns have the
\* same appid, whatever the search pages list (a product on several pages,
\* or several times within one group or page).
C2_ReturnedAppidsUnique ==
  spc = "returned" =>
    \A m, n \in 1..Len(sresult) :
      sresult[m].appid = sresult[n].appid => m = n

\* Product 9 came first from the page that lists it twice, products 5 and 6
\* came from two pages, and product 9 is in the returned list.
C2_Witness ==
  /\ spc = "returned"
  /\ Len(candidates) = 10
  /\ candidates[1].appid = 9
  /\ \E n \in 1..Len(sresult) : sresult[n].appid = 9
  /\ \E n \in 1..Len(sresult) : sresult[n].appid = 5

\* C3: every game of a returned list has a score, which is 999 or at least
\* 25, and no candidate that verifyDomesticGame answers null for is in it.
C3_ReturnedScoresPassThreshold ==
  spc = "returned" =>
    /\ \A n \in 1..Len(sresult) :
         /\ sresult[n].hasScore
         /\ sresult[n].score = 999 \/ sresult[n].score >= 25
    /\ \A m \in 1..Len(candidates) :
         verifyDomesticGame(candidates[m], DetailFor(candidates[m].appid)).null
           => \A n \in 1..Len(sresult) : sresult[n].appid # candidates[m].appid

\* The returned list holds the VIP product 2 and product 7, whose score is
\* the threshold, and the rejected product 3 was a candidate.
C3_Witness ==
  /\ spc = "returned"
  /\ \E n \in 1..Len(sresult) : sresult[n].appid = 2 /\ sresult[n].score = 999
  /\ \E n \in 1..Len(sresult) : sresult[n].appid = 7 /\ sresult[n].score = 25
  /\ \E m \in 1..Len(candidates) : candidates[m].appid = 3

\* C7: when the try statement catches an error, the call returns the games
\* validated so far if there are any and rejects with that same error if
\* there are none; an error of phase 1 always propagates.
C7_PartialResultOrRethrow ==
  /\ raised # NoRaise =>
       /\ raised.valid = validGames
       /\ raised.valid # <<>> => spc = "returned" /\ sresult = raised.valid
       /\ raised.valid = <<>> => spc = "thrown" /\ sthrown = raised.error
       /\ raised.phase = 1 => spc = "thrown" /\ sthrown = raised.error
  /\ spc = "thrown" => raised # NoRaise /\ sthrown \in Exceptions
  /\ raised = NoRaise => sthrown = ""

\* The callback threw before the second chunk, after the first chunk had
\* validated games.
C7_Witness ==
  /\ spc = "returned"
  /\ raised.phase = 2
  /\ raised.error = "E2"
  /\ idx = CHUNK_SIZE
  /\ Len(sresult) >= 2
  /\ sresult = raised.valid

\* The pages of the group the loop of phase 1 is at, and the positions in
\* candidates of the chunk the loop of phase 2 is at.
GroupPages == page..(Min(page + 3, MAX_PAGES) - 1)
ChunkPositions == (idx + 1)..Min(idx + 8, Len(candidates))

\* C20: the calls in flight belong to one group.  While a group of
\* fetchSearchPage calls is awaited, every page of the group was issued
\* (it is in flight or has settled) and no other call is in flight, so at
\* most 3 are in flight; likewise for a chunk of verifyDomesticGame calls
\* and 8, which is only awaited after the last group of pages; and between
\* two groups, and after the return, nothing is in flight.
C20_OneGroupInFlight ==
  /\ spc = "p1wait" =>
       /\ inflight \cup DOMAIN results = GroupPages
       /\ inflight \cap DOMAIN results = {}
       /\ Cardinality(inflight) <= 3
  /\ spc = "p2wait" =>
       /\ page >= MAX_PAGES
       /\ inflight \cup DOMAIN results = ChunkPositions
       /\ inflight \cap DOMAIN results = {}
       /\ Cardinality(inflight) <= 8
  /\ spc \notin {"p1wait", "p2wait"} => inflight = {}

\* Eight verifyDomesticGame calls are in flight for the first chunk of a
\* list of more than eight candidates.
C20_Witness ==
  /\ spc = "p2wait"
  /\ idx = 0
  /\ Len(candidates) > 8
  /\ Cardinality(inflight) = 8

\* The list before is the head of the list after.
Extends(after, before) ==
  /\ Len(before) <= Len(after)
  /\ SubSeq(after, 1, Len(before)) = before

\* C21: within one scan, candidates and validGames change only while no
\* call of a group is in flight and the group awaited has been joined; a
\* change appends to the list, except the sort before the return.
C21_AccumulatorsAppendedBetweenGroups ==
  [][ /\ candidates' # candidates =>
           /\ inflight = {} /\ inflight' = {}
           /\ spc = "p1wait" /\ spc' = "p1"
           /\ Extends(candidates', candidates)
      /\ validGames' # validGames =>
           /\ inflight = {} /\ inflight' = {}
           /\ \/ spc = "p2wait" /\ spc' = "p2" /\ Extends(validGames', validGames)
              \/ spc = "p2" /\ spc' = "returned" /\ idx >= Len(candidates)
     ]_vars

\* Both lists have been appended to: a second group of pages was awaited
\* with candidates of the first, and the first chunk has validated games.
C21_Witness ==
  /\ spc = "p2"
  /\ idx = 8
  /\ Len(candidates) > 8
  /\ Len(validGames) >= 2

----------------------------------------------------------------------------
(* Claims about fetchReviews.                                              *)

\* The least number of hundreds that holds limit: ceil(limit / 100).
HundredsFor(limit) ==
  CHOOSE n \in 0..(limit + 1) :
    /\ 100 * n >= limit
    /\ n = 0 \/ 100 * (n - 1) < limit

\* C16: one call of fetchReviews issues at most ceil(limit / 100) relay
\* calls, at most 3 for limit 250, and ends, whatever pages and cursors the
\* relay calls deliver, a cursor that never changes included.
C16_RequestsCappedAndEnds ==
  /\ [](Len(fsent) <= HundredsFor(flimit))
  /\ [](flimit = 250 => Len(fsent) <= 3)
  /\ <>(fpc = "done")

\* A call with limit 250 that ended after three relay calls which all
\* carried the first cursor.
C16_Witness ==
  /\ fpc = "done"
  /\ flimit = 250
  /\ Len(fsent) = 3
  /\ \A k \in 1..3 : fsent[k] = "*"

\* C17: when a relay call of fetchReviews fails, also after pages were read,
\* the call throws the one fixed Error and delivers no review; a call in
\* which no relay call fails returns its list.
C17_FailureDiscardsPages ==
  fpc = "done" =>
    IF \E k \in 1..Len(fdata) : fdata[k].threw
    THEN /\ fresult.threw
         /\ fresult.message = <<"CANNOT_FETCH_REVIEW_DATA_CHECK_NETWORK_OR_STEAM">>
         /\ fresult.value = <<>>
    ELSE /\ ~fresult.threw
         /\ fresult.value = freviews

\* The second relay call failed after the first had delivered a page.
C17_Witness ==
  /\ fpc = "done"
  /\ Len(fdata) = 2
  /\ fdata[2].threw
  /\ Len(freviews) = 100
  /\ fresult.threw
  /\ fresult.value = <<>>

\* The response is an upstream answer whose success flag is not 1, or a
\* page with zero reviews.
StopsPaging(data) ==
  /\ ~data.threw
  /\ \/ data.kind # "obj"
     \/ data.success # 1
     \/ ~data.hasReviews
     \/ Len(data.reviews) = 0

\* The number of reviews of the responses 1..k.
RECURSIVE CountThrough(_, _)
CountThrough(pages, k) ==
  IF k = 0 THEN 0 ELSE CountThrough(pages, k - 1) + Len(pages[k].reviews)

\* C24: a response whose success flag is not 1, a page with zero reviews
\* and a count of limit or more each end the call: the response is the last
\* one and no request follows it; and a call that ended on a page with zero
\* reviews or on its count returns the reviews read so far and throws
\* nothing.
C24_StopsAtFirstStopCondition ==
  /\ Len(fsent) = Len(fdata)
  /\ \A k \in 1..Len(fdata) :
       (StopsPaging(fdata[k]) \/ CountThrough(fdata, k) >= flimit) =>
         /\ k = Len(fdata)
         /\ fpc = "done"
  /\ (/\ fpc = "done"
      /\ Len(fdata) >= 1
      /\ ~fdata[Len(fdata)].threw) =>
        /\ ~fresult.threw
        /\ fresult.value = freviews
        /\ Len(freviews) =
             (IF StopsPaging(fdata[Len(fdata)])
              THEN CountThrough(fdata, Len(fdata) - 1)
              ELSE CountThrough(fdata, Len(fdata)))

\* A call with limit 250 read a page of 100 and ended on a page with zero
\* reviews, returning the 100.
C24_Witness ==
  /\ fpc = "done"
  /\ flimit = 250
  /\ Len(fdata) = 2
  /\ fdata[2].kind = "obj" /\ fdata[2].success = 1 /\ fdata[2].hasReviews
  /\ fdata[2].reviews = <<>>
  /\ Len(fresult.value) = 100

\* The reviews of the pages among the responses 1..k, in the order of the
\* requests.
RECURSIVE PagesThrough(_, _)
PagesThrough(pages, k) ==
  IF k = 0 THEN <<>>
  ELSE PagesThrough(pages, k - 1)
         \o (IF pages[k].threw \/ StopsPaging(pages[k]) THEN <<>>
             ELSE pages[k].reviews)

\* C28: the list a call of fetchReviews returns is the pages received, one
\* after the other in the order of the requests and not cut to limit; with
\* pages of at most 100 reviews it holds at most ceil(limit / 100) * 100
\* reviews, which is less than limit + 100.
C28_ReturnsAllPagesInOrder ==
  (fpc = "done" /\ ~fresult.threw) =>
    /\ fresult.value = PagesThrough(fdata, Len(fdata))
    /\ Len(fresult.value) <= HundredsFor(flimit) * 100
    /\ Len(fresult.value) < flimit + 100

\* A call with limit 101 returned two pages of 100 reviews: more than limit.
C28_Witness ==
  /\ fpc = "done"
  /\ ~fresult.threw
  /\ flimit = 101
  /\ Len(fresult.value) = 200
  /\ fresult.value[1] = 1001
  /\ fresult.value[200] = 2100

\* C29: the first request of fetchReviews carries the cursor '*' and each
\* later request the cursor of the response to the request before it; the
\* cursor held for the next request is the one of the last page read, and
\* after the response that ended the loop no request is sent.
C29_CursorChain ==
  /\ Len(fsent) = Len(fdata)
  /\ Len(fsent) >= 1 => fsent[1] = "*"
  /\ \A k \in 1..(Len(fsent) - 1) :
       /\ ~fdata[k].threw /\ ~StopsPaging(fdata[k])
       /\ fsent[k + 1] = fdata[k].cursor
  /\ (fpc = "loop" /\ Len(fdata) >= 1) => fcursor = fdata[Len(fdata)].cursor

\* Three requests were sent: the second with the cursor of the first page,
\* the third with the different cursor of the second.
C29_Witness ==
  /\ fpc = "done"
  /\ Len(fsent) = 3
  /\ fsent[2] = "AoJ4"
  /\ fsent[3] = "undefined"
  /\ fdata[1].cursor = "AoJ4"
  /\ fdata[2].cursor = "undefined"

----------------------------------------------------------------------------
(* Claims about ClientApp.                                                 *)

\* The day of a time in seconds, counted from 1970-01-01 (UTC).
DayOf(seconds) == seconds \div 86400

\* The review is among filteredReviews.
IsShown(r) == \E k \in 1..Len(filteredReviews) : filteredReviews[k] = r

\* The playtime of the review, in hours, lies in the closed interval of the
\* two playtime criteria.
HoursWithin(r) ==
  /\ r.playtime_forever >= 60 * filters.minPlaytimeHours
  /\ r.playtime_forever <= 60 * filters.maxPlaytimeHours

\* The review was created on a day from startDate to endDate, both included.
DayWithin(r) ==
  /\ DayOf(r.timestamp_created) >= DayOf(dateSeconds(filters.startDate))
  /\ DayOf(r.timestamp_created) <= DayOf(dateSeconds(filters.endDate))

\* C18: a review is in filteredReviews if and only if its playtime in hours
\* lies in [minPlaytimeHours, maxPlaytimeHours] and it was created on a
\* calendar day in [startDate, endDate]; a review created on a day after
\* endDate is never included.
C18_FilteredIffWithinBounds ==
  \A n \in 1..Len(reviews) :
    IsShown(reviews[n]) <=> (HoursWithin(reviews[n]) /\ DayWithin(reviews[n]))

\* The step in which the fetch of a handleSelectGame fails: its call leaves
\* pending and error, which the handler had cleared, becomes the message
\* fetchReviews throws.
FetchFails ==
  /\ \E t \in BagToSet(pending) :
       /\ t.op = "reviews"
       /\ pending' = pending (-) SetToBag({t})
  /\ error' # error
  /\ error' = ErrorOf("CANNOT_FETCH_REVIEW_DATA_CHECK_NETWORK_OR_STEAM")

\* The step in which the summarizer call of a handleAnalyze fails.
AnalysisFails ==
  /\ \E t \in BagToSet(pending) :
       /\ t.op = "analyze"
       /\ pending' = pending (-) SetToBag({t})
  /\ error' # error
  /\ error' = ErrorOf("AI_ANALYSIS_REQUEST_FAILED_RETRY_LATER")

\* What the dashboard of the selected game shows is this game's: every
\* review was fetched for it and the report, if any, was made for it.
ShowsOnlySelectedGame ==
  selectedGame # NoGame =>
    /\ \A k \in 1..Len(reviews) : reviews[k].of = selectedGame.appid
    /\ report.set => report.gameName = selectedGame.name

\* C19: a step in which a review fetch or a summarizer call fails leaves
\* error set to a message and status 'IDLE', and reviews and report hold no
\* data of a game other than the selected one.
C19_FailureLeavesCleanRetryableState ==
  [][ (FetchFails \/ AnalysisFails) =>
        /\ error'.set
        /\ status' = "IDLE"
        /\ ShowsOnlySelectedGame' ]_vars

\* The scans started by handleAutoScan that have not completed.
ScansInFlight == CopiesIn(Task("scan", NoGame, <<>>, <<>>), pending)

\* C26: at most one scan started from the page is in flight; while one has
\* not completed, no sequence of searches, lookups, selections and resets
\* lets handleAutoScan start a second one.
C26_AtMostOneScanInFlight == ScansInFlight <= 1

\* C27: whenever a game is selected and reviews is not empty, reviews
\* holds the reviews fetched for that game, and so do the reviews listed
\* for analysis.
C27_ReviewsOfSelectedGame ==
  selectedGame # NoGame =>
    /\ reviews # <<>> => reviews = ReviewsOf(selectedGame.appid)
    /\ \A k \in 1..Len(filteredReviews) :
         filteredReviews[k].of = selectedGame.appid

\* The step hands the call t to the summarizer.
SummarizerInvoked(t) ==
  /\ t.op = "analyze"
  /\ CopiesIn(t, pending') = CopiesIn(t, pending) + 1

====
